---- MODULE Spec2Model ----
(***************************************************************************)
(* A model of xapian_backend.py (xapian-haystack): the value/term codec,   *)
(* the index operations of SearchBackend with its schema and its handles,  *)
(* search and more_like_this, the query compiler of SearchQuery and the    *)
(* date facets of SearchBackend._do_date_facets.                           *)
(*                                                                         *)
(* Text is a sequence of one-character strings, so that prefixes, padding  *)
(* and lexicographic order are computed and not assumed.                   *)
(***************************************************************************)
EXTENDS Integers, Sequences, FiniteSets, TLC

VARIABLES
    va, vb,             \* codec: the two values to encode
    ea, eb,             \* codec: their sort keys
    cpc,                \* codec: "init" or "done"
    docs,               \* index: docid -> document
    lastdocid,          \* index: the highest docid ever used
    meta,               \* index: the metadata store (schema, content)
    schema,             \* backend: self.schema
    content_field_name, \* backend: self.content_field_name
    site,               \* backend: the fields self.site has registered
    write_lock,         \* index: "free", or "held" by a writable handle
    query_filter,       \* query: self.query_filter of the SearchQuery
    facet_params,       \* date facets: the parameters of the facet
    date_range,         \* date facets: the boundary the loop is at
    facet_list,         \* date facets: the (boundary, count) pairs so far
    fpc,                \* date facets: "idle", "init", "loop", "done", "error"
    results,            \* date facets: the date values of the results
    result_n,           \* date facets: the number of results tallied
    tpc,                \* date facets: "idle", "count", "returned", "raised"
    last                \* the last call and what it returned

codecVars == <<va, vb, ea, eb, cpc>>
indexVars == <<docs, lastdocid, meta>>
backendVars == <<schema, content_field_name, site>>
handleVars == <<write_lock>>
compilerVars == <<query_filter>>
facetVars == <<facet_params, date_range, facet_list, fpc, results, result_n,
               tpc>>
vars == <<va, vb, ea, eb, cpc, docs, lastdocid, meta, schema,
          content_field_name, site, write_lock, query_filter, facet_params, date_range,
          facet_list, fpc, results, result_n, tpc, last>>

(***************************************************************************)
(* Characters and strings.                                                 *)
(***************************************************************************)

\* The code points of the characters the model uses.
CodePoint ==
    (" " :> 32) @@ ("-" :> 45) @@ ("." :> 46) @@ (":" :> 58) @@ ("0" :> 48) @@ ("1" :> 49) @@ ("2" :> 50) @@
    ("3" :> 51) @@ ("4" :> 52) @@ ("5" :> 53) @@ ("6" :> 54) @@ ("7" :> 55) @@ ("8" :> 56) @@
    ("9" :> 57) @@ ("A" :> 65) @@ ("B" :> 66) @@ ("C" :> 67) @@ ("D" :> 68) @@ ("E" :> 69) @@
    ("F" :> 70) @@ ("G" :> 71) @@ ("H" :> 72) @@ ("I" :> 73) @@ ("J" :> 74) @@ ("K" :> 75) @@
    ("L" :> 76) @@ ("M" :> 77) @@ ("N" :> 78) @@ ("O" :> 79) @@ ("P" :> 80) @@ ("Q" :> 81) @@
    ("R" :> 82) @@ ("S" :> 83) @@ ("T" :> 84) @@ ("U" :> 85) @@ ("V" :> 86) @@ ("W" :> 87) @@
    ("X" :> 88) @@ ("Y" :> 89) @@ ("Z" :> 90) @@ ("a" :> 97) @@ ("b" :> 98) @@ ("c" :> 99) @@
    ("d" :> 100) @@ ("e" :> 101) @@ ("f" :> 102) @@ ("g" :> 103) @@ ("h" :> 104) @@ ("i" :> 105) @@
    ("j" :> 106) @@ ("k" :> 107) @@ ("l" :> 108) @@ ("m" :> 109) @@ ("n" :> 110) @@ ("o" :> 111) @@
    ("p" :> 112) @@ ("q" :> 113) @@ ("r" :> 114) @@ ("s" :> 115) @@ ("t" :> 116) @@ ("u" :> 117) @@
    ("v" :> 118) @@ ("w" :> 119) @@ ("x" :> 120) @@ ("y" :> 121) @@ ("z" :> 122)

\* The code point of a character.
CharCode(c) == CodePoint[c]

DigitChars == <<"0", "1", "2", "3", "4", "5", "6", "7", "8", "9">>

DigitSet == {"0", "1", "2", "3", "4", "5", "6", "7", "8", "9"}

DigitChar(d) == DigitChars[d + 1]

IsDigitChar(c) == c \in DigitSet

DigitValue(c) == CharCode(c) - CharCode("0")

UpperChars ==
    {
      "A", "B", "C", "D", "E", "F", "G", "H", "I", "J", "K", "L", "M",
      "N", "O", "P", "Q", "R", "S", "T", "U", "V", "W", "X", "Y", "Z" }

LowerChars ==
    {
      "a", "b", "c", "d", "e", "f", "g", "h", "i", "j", "k", "l", "m",
      "n", "o", "p", "q", "r", "s", "t", "u", "v", "w", "x", "y", "z" }

LowerOf ==
    ("A" :> "a") @@ ("B" :> "b") @@ ("C" :> "c") @@ ("D" :> "d") @@ ("E" :> "e") @@ ("F" :> "f") @@
    ("G" :> "g") @@ ("H" :> "h") @@ ("I" :> "i") @@ ("J" :> "j") @@ ("K" :> "k") @@ ("L" :> "l") @@
    ("M" :> "m") @@ ("N" :> "n") @@ ("O" :> "o") @@ ("P" :> "p") @@ ("Q" :> "q") @@ ("R" :> "r") @@
    ("S" :> "s") @@ ("T" :> "t") @@ ("U" :> "u") @@ ("V" :> "v") @@ ("W" :> "w") @@ ("X" :> "x") @@
    ("Y" :> "y") @@ ("Z" :> "z")

UpperOf ==
    ("a" :> "A") @@ ("b" :> "B") @@ ("c" :> "C") @@ ("d" :> "D") @@ ("e" :> "E") @@ ("f" :> "F") @@
    ("g" :> "G") @@ ("h" :> "H") @@ ("i" :> "I") @@ ("j" :> "J") @@ ("k" :> "K") @@ ("l" :> "L") @@
    ("m" :> "M") @@ ("n" :> "N") @@ ("o" :> "O") @@ ("p" :> "P") @@ ("q" :> "Q") @@ ("r" :> "R") @@
    ("s" :> "S") @@ ("t" :> "T") @@ ("u" :> "U") @@ ("v" :> "V") @@ ("w" :> "W") @@ ("x" :> "X") @@
    ("y" :> "Y") @@ ("z" :> "Z")

\* unicode.lower() on one character.
LowerChar(c) == IF c \in UpperChars THEN LowerOf[c] ELSE c

\* unicode.upper() on one character.
UpperChar(c) == IF c \in LowerChars THEN UpperOf[c] ELSE c

Lower(s) == [i \in 1..Len(s) |-> LowerChar(s[i])]

Upper(s) == [i \in 1..Len(s) |-> UpperChar(s[i])]

\* s < t for Python unicode strings: lexicographic by code point, a proper
\* prefix being smaller.
RECURSIVE StrLess(_, _)
StrLess(s, t) ==
    IF t = <<>> THEN FALSE
    ELSE IF s = <<>> THEN TRUE
    ELSE IF s[1] # t[1] THEN CharCode(s[1]) < CharCode(t[1])
    ELSE StrLess(Tail(s), Tail(t))

\* s.startswith(p)
StartsWith(s, p) == Len(p) <= Len(s) /\ SubSeq(s, 1, Len(p)) = p

(***************************************************************************)
(* Python values.  An integer is sign and magnitude, the magnitude in two  *)
(* limbs of six decimal digits (hi * 10^6 + lo), because 10^12 does not    *)
(* fit the model checker's integers.                                       *)
(***************************************************************************)

Limb == 10 ^ 6

IntV(neg, hi, lo) == [k |-> "int", neg |-> neg, hi |-> hi, lo |-> lo]

BoolV(b) == [k |-> "bool", b |-> b]

TextV(s) == [k |-> "text", s |-> s]

DateV(y, m, d) == [k |-> "date", year |-> y, month |-> m, day |-> d]

DateTimeV(y, m, d, hh, mm, ss, us) ==
    [k |-> "datetime", year |-> y, month |-> m, day |-> d,
     hour |-> hh, minute |-> mm, second |-> ss, microsecond |-> us]

\* A byte string that is not valid text: force_unicode raises
\* UnicodeDecodeError on it.
Undecodable == [k |-> "bytes"]

\* isinstance(value, cls): bool is a subclass of int, datetime of date.
IsInstance(v, cls) ==
    CASE cls = "datetime" -> v.k = "datetime"
      [] cls = "date"     -> v.k \in {"date", "datetime"}
      [] cls = "bool"     -> v.k = "bool"
      [] cls = "int"      -> v.k \in {"int", "bool"}
      [] OTHER            -> FALSE

\* The integer a value stands for under int(): True is 1, False is 0.
AsInt(v) == IF v.k = "bool" THEN IntV(FALSE, 0, IF v.b THEN 1 ELSE 0) ELSE v

\* a < b on integers.
IntLess(a, b) ==
    LET mless(x, y) == x.hi < y.hi \/ (x.hi = y.hi /\ x.lo < y.lo)
    IN  CASE a.neg /\ ~b.neg -> TRUE
          [] ~a.neg /\ b.neg -> FALSE
          [] ~a.neg /\ ~b.neg -> mless(a, b)
          [] OTHER -> mless(b, a)

(***************************************************************************)
(* Formatting: the % operator of Python with a %0<w>d conversion.          *)
(***************************************************************************)

\* The decimal digits of a natural number, most significant first.
RECURSIVE DecDigits(_)
DecDigits(n) ==
    IF n < 10 THEN <<DigitChar(n)>>
    ELSE DecDigits(n \div 10) \o <<DigitChar(n % 10)>>

RECURSIVE ZeroPad(_, _)
ZeroPad(s, w) == IF Len(s) >= w THEN s ELSE ZeroPad(<<"0">> \o s, w)

\* '%0<w>d' % n for a natural number n.
PadNat(n, w) == ZeroPad(DecDigits(n), w)

\* The decimal digits of the magnitude of an integer value.
MagDigits(v) ==
    IF v.hi = 0 THEN DecDigits(v.lo)
    ELSE DecDigits(v.hi) \o ZeroPad(DecDigits(v.lo), 6)

\* '%0<w>d' % v: the sign counts in the width, the zeros follow the sign.
FormatD(v, w) ==
    IF v.neg THEN <<"-">> \o ZeroPad(MagDigits(v), w - 1)
    ELSE ZeroPad(MagDigits(v), w)

\* unicode(v) for the values of the model.
ForceUnicode(v) ==
    CASE v.k = "text" -> v.s
      [] v.k = "int"  -> (IF v.neg THEN <<"-">> ELSE <<>>) \o MagDigits(v)
      [] v.k = "bool" -> IF v.b THEN <<"T", "r", "u", "e">>
                         ELSE <<"F", "a", "l", "s", "e">>

Decodable(v) == v.k # "bytes"

(***************************************************************************)
(* The codec: _marshal_date, _marshal_datetime, _marshal_value,            *)
(* _marshal_term.                                                          *)
(***************************************************************************)

YearWidth == 4
FieldWidth == 2
MicroWidth == 6
IntWidth == 12

ZeroTime == <<"0", "0", "0", "0", "0", "0">>

_marshal_date(d) ==
    PadNat(d.year, YearWidth) \o PadNat(d.month, FieldWidth)
        \o PadNat(d.day, FieldWidth) \o ZeroTime

\* The 20-digit key without the padding of the microseconds.
_marshal_datetime_us_unpadded(dt) ==
    PadNat(dt.year, YearWidth) \o PadNat(dt.month, FieldWidth)
        \o PadNat(dt.day, FieldWidth) \o PadNat(dt.hour, FieldWidth)
        \o PadNat(dt.minute, FieldWidth) \o PadNat(dt.second, FieldWidth)
        \o DecDigits(dt.microsecond)

\* '%04d%02d%02d%02d%02d%02d%06d' of the fields of a date-time.
_marshal_datetime_us(dt) ==
    PadNat(dt.year, YearWidth) \o PadNat(dt.month, FieldWidth)
        \o PadNat(dt.day, FieldWidth) \o PadNat(dt.hour, FieldWidth)
        \o PadNat(dt.minute, FieldWidth) \o PadNat(dt.second, FieldWidth)
        \o PadNat(dt.microsecond, MicroWidth)

_marshal_datetime_s(dt) ==
    PadNat(dt.year, YearWidth) \o PadNat(dt.month, FieldWidth)
        \o PadNat(dt.day, FieldWidth) \o PadNat(dt.hour, FieldWidth)
        \o PadNat(dt.minute, FieldWidth) \o PadNat(dt.second, FieldWidth)

_marshal_datetime(dt) ==
    IF dt.microsecond # 0 THEN _marshal_datetime_us(dt)
    ELSE _marshal_datetime_s(dt)

\* The integer key without padding.
_marshal_int_unpadded(v) == FormatD(AsInt(v), 0)

\* '%012d' % value
_marshal_int(v) == FormatD(AsInt(v), IntWidth)

_marshal_bool(v) == IF v.b THEN <<"t">> ELSE <<"f">>

\* The branches in the order of the code.  The float branch hands the
\* value to the engine's sortable_serialise; floats are not among the
\* values of the model.
_marshal_value(value) ==
    IF IsInstance(value, "datetime") THEN _marshal_datetime(value)
    ELSE IF IsInstance(value, "date") THEN _marshal_date(value)
    ELSE IF IsInstance(value, "bool") THEN _marshal_bool(value)
    ELSE IF IsInstance(value, "int") THEN _marshal_int(value)
    ELSE Lower(ForceUnicode(value))

_marshal_term(term) ==
    IF IsInstance(term, "datetime") THEN _marshal_datetime(term)
    ELSE IF IsInstance(term, "date") THEN _marshal_date(term)
    ELSE Lower(ForceUnicode(term))

(***************************************************************************)
(* The retrieval engine: documents, the query algebra and matching.        *)
(* A term is a string.  A document maps each of its terms to the set of    *)
(* positions it occurs at (empty for a term added without position).       *)
(***************************************************************************)

EmptyQuery == [op |-> "EMPTY"]

TermQuery(t) == [op |-> "TERM", term |-> t]

\* xapian.Query(''): the query that matches every document.
MatchAll == TermQuery(<<>>)

\* xapian.Query.empty(query): only a query built from nothing is empty.
QueryEmpty(q) == q.op = "EMPTY"

IsDistributable(op) == op \in {"AND", "OR"}

\* The subqueries as the engine stores them: a subquery with the operator
\* of its parent is spliced into the parent (AND and OR only).
RECURSIVE Splice(_, _)
Splice(op, subs) ==
    IF subs = <<>> THEN <<>>
    ELSE LET q == Head(subs)
         IN  (IF IsDistributable(op) /\ q.op = op THEN q.subs ELSE <<q>>)
                 \o Splice(op, Tail(subs))

NonEmptySubs(subs) == SelectSeq(subs, LAMBDA q : ~QueryEmpty(q))

HasEmptySub(subs) == \E i \in 1..Len(subs) : QueryEmpty(subs[i])

\* xapian.Query(op, [subqueries]): no subquery gives the empty query, an
\* empty subquery makes an AND or a PHRASE empty and is dropped from an OR,
\* a single subquery stands for itself.
Query(op, subs) ==
    LET kept == IF op = "OR" THEN NonEmptySubs(subs) ELSE subs
    IN  IF kept = <<>> THEN EmptyQuery
        ELSE IF HasEmptySub(kept) THEN EmptyQuery
        ELSE IF Len(kept) = 1 THEN kept[1]
        ELSE [op |-> op, subs |-> Splice(op, kept)]

\* xapian.Query(OP_AND_NOT, left, right)
AndNotQuery(left, right) ==
    IF QueryEmpty(left) THEN EmptyQuery
    ELSE IF QueryEmpty(right) THEN left
    ELSE [op |-> "AND_NOT", subs |-> <<left, right>>]

\* xapian.Query(OP_SCALE_WEIGHT, subquery, factor)
ScaleWeightQuery(sub, factor) ==
    IF QueryEmpty(sub) THEN EmptyQuery
    ELSE [op |-> "SCALE_WEIGHT", subs |-> <<sub>>, factor |-> factor]

\* xapian.Query(op, [terms])
TermListQuery(op, terms) ==
    Query(op, [i \in 1..Len(terms) |-> TermQuery(terms[i])])

HasTerm(doc, t) == t \in DOMAIN doc.terms

\* The terms occur in order at consecutive positions.
PhraseMatches(doc, subs) ==
    /\ \A i \in 1..Len(subs) : HasTerm(doc, subs[i].term)
    /\ \E p \in doc.terms[subs[1].term] :
           \A i \in 1..Len(subs) : (p + i - 1) \in doc.terms[subs[i].term]

RECURSIVE Matches(_, _)
Matches(q, doc) ==
    CASE q.op = "EMPTY" -> FALSE
      [] q.op = "TERM" -> q.term = <<>> \/ HasTerm(doc, q.term)
      [] q.op = "AND" -> \A i \in 1..Len(q.subs) : Matches(q.subs[i], doc)
      [] q.op = "OR" -> \E i \in 1..Len(q.subs) : Matches(q.subs[i], doc)
      [] q.op = "AND_NOT" ->
            Matches(q.subs[1], doc) /\ ~Matches(q.subs[2], doc)
      [] q.op = "PHRASE" -> PhraseMatches(doc, q.subs)
      [] q.op = "SCALE_WEIGHT" -> Matches(q.subs[1], doc)

\* The docids of the documents of an index that match a query.
MatchSet(q, index) == { id \in DOMAIN index : Matches(q, index[id]) }

\* A finite set of numbers as an ascending sequence.
RECURSIVE Ascending(_)
Ascending(S) ==
    IF S = {} THEN <<>>
    ELSE LET m == CHOOSE x \in S : \A y \in S : x <= y
         IN  <<m>> \o Ascending(S \ {m})

Min0(a, b) == IF a < b THEN a ELSE b

\* enquire.get_mset(first, maxitems): the matches ranked first ..
\* first + maxitems - 1.  Rank is docid order, the engine's order for
\* matches of equal weight; weights are not modelled.
GetMSet(q, index, first, maxitems) ==
    LET ranked == Ascending(MatchSet(q, index))
    IN  SubSeq(ranked, first + 1, Min0(Len(ranked), first + maxitems))

\* matches.get_matches_estimated(), taken as the number of matches.
MatchesEstimated(q, index) == Cardinality(MatchSet(q, index))

Restrict(f, S) == [x \in S |-> f[x]]

DocsWithTerm(index, t) == { id \in DOMAIN index : HasTerm(index[id], t) }

\* database.delete_document(term): every document indexed by the term.
DeleteByTerm(index, t) ==
    Restrict(index, DOMAIN index \ DocsWithTerm(index, t))

\* database.delete_document(docid)
DeleteByDocid(index, id) == Restrict(index, DOMAIN index \ {id})

\* A replace_document that never looks the term up and always adds.
ReplaceDocument_AlwaysAdds(db, t, doc) ==
    [docs |-> [id \in DOMAIN db.docs \cup {db.last + 1} |->
                  IF id = db.last + 1 THEN doc ELSE db.docs[id]],
     last |-> db.last + 1]

\* database.replace_document(term, document): the document takes the place
\* of the first document indexed by the term, any other such document is
\* deleted; with no such document it is added under a new docid.
ReplaceDocument(db, t, doc) ==
    LET hit == DocsWithTerm(db.docs, t)
    IN  IF hit = {}
        THEN [docs |-> [id \in DOMAIN db.docs \cup {db.last + 1} |->
                            IF id = db.last + 1 THEN doc ELSE db.docs[id]],
              last |-> db.last + 1]
        ELSE LET first == CHOOSE x \in hit : \A y \in hit : x <= y
                 keep == (DOMAIN db.docs \ hit) \cup {first}
             IN  [docs |-> [id \in keep |->
                               IF id = first THEN doc ELSE db.docs[id]],
                  last |-> db.last]

(***************************************************************************)
(* The term generator: index_text splits text into words and adds, for     *)
(* each word, the prefixed word at the next position and the prefixed stem *)
(* (marked Z) without position.                                            *)
(***************************************************************************)

IsWordChar(c) == c \notin {" ", "-", "."}

\* The words of a text, in order.
RECURSIVE SplitWords(_, _)
SplitWords(text, word) ==
    IF text = <<>> THEN (IF word = <<>> THEN <<>> ELSE <<word>>)
    ELSE IF IsWordChar(Head(text))
         THEN SplitWords(Tail(text), Append(word, Head(text)))
         ELSE (IF word = <<>> THEN <<>> ELSE <<word>>)
                  \o SplitWords(Tail(text), <<>>)

Words(text) == SplitWords(text, <<>>)

\* text.split(): the pieces between blanks.
RECURSIVE SplitBlanks(_, _)
SplitBlanks(text, word) ==
    IF text = <<>> THEN (IF word = <<>> THEN <<>> ELSE <<word>>)
    ELSE IF Head(text) # " "
         THEN SplitBlanks(Tail(text), Append(word, Head(text)))
         ELSE (IF word = <<>> THEN <<>> ELSE <<word>>)
                  \o SplitBlanks(Tail(text), <<>>)

Split(text) == SplitBlanks(text, <<>>)

\* The stemmer, which belongs to the engine: a plural s is dropped.
Stem(word) ==
    IF Len(word) > 2 /\ word[Len(word)] = "s"
    THEN SubSeq(word, 1, Len(word) - 1)
    ELSE word

\* A document under construction: the postings added so far (a term and
\* its position, 0 for a term added without position), the values added
\* so far (a slot and its value) and the position of the term generator.
NewDocument == [postings |-> <<>>, slots |-> <<>>, termpos |-> 0]

\* document.add_term(term)
AddTerm(doc, t) == [doc EXCEPT !.postings = Append(@, <<t, 0>>)]

RECURSIVE IndexWords(_, _, _)
IndexWords(doc, words, prefix) ==
    IF words = <<>> THEN doc
    ELSE LET w == Head(words)
             pos == doc.termpos + 1
         IN  IndexWords(
                [doc EXCEPT !.postings =
                                @ \o << <<prefix \o w, pos>>,
                                        <<(<<"Z">> \o prefix \o Stem(w)), 0>> >>,
                            !.termpos = pos],
                Tail(words), prefix)

\* term_generator.index_text(text, 1, prefix)
IndexText(doc, text, prefix) == IndexWords(doc, Words(text), prefix)

\* document.add_value(slot, value)
AddValue(doc, slot, value) ==
    [doc EXCEPT !.slots = Append(@, <<slot, value>>)]

\* The terms of a document, each with the positions it occurs at.
TermsOf(doc) ==
    LET P == { doc.postings[i] : i \in 1..Len(doc.postings) }
    IN  [t \in { p[1] : p \in P } |->
            { p[2] : p \in { x \in P : x[1] = t /\ x[2] # 0 } }]

\* The values of a document by slot: the last value added to a slot.
ValuesOf(doc) ==
    LET idx(slot) == CHOOSE i \in 1..Len(doc.slots) :
                        /\ doc.slots[i][1] = slot
                        /\ \A j \in (i + 1)..Len(doc.slots) :
                              doc.slots[j][1] # slot
    IN  [slot \in { doc.slots[i][1] : i \in 1..Len(doc.slots) } |->
            doc.slots[idx(slot)][2]]

(***************************************************************************)
(* SearchBackend: the schema, the handles and the index operations.        *)
(***************************************************************************)

DOCUMENT_ID_TERM_PREFIX == <<"Q">>
DOCUMENT_CUSTOM_TERM_PREFIX == <<"X">>
DOCUMENT_CT_TERM_PREFIX ==
    DOCUMENT_CUSTOM_TERM_PREFIX
        \o <<"C", "O", "N", "T", "E", "N", "T", "T", "Y", "P", "E">>

Dot == <<".">>

\* pickle.dumps / pickle.loads
Pickle(x) == [pickled |-> x]
Unpickle(p) == p.pickled

\* A field of a search index: its name, its class and its flags.
Field(name, cls, document, indexed) ==
    [field_name |-> name, cls |-> cls, document |-> document,
     indexed |-> indexed]

FText == <<"t", "e", "x", "t">>
FViews == <<"v", "i", "e", "w", "s">>
FSlug == <<"s", "l", "u", "g">>
FName == <<"n", "a", "m", "e">>

\* The fields of the site as registered at the start, in the order the
\* dictionary of self.site.all_searchfields() yields them.
SiteFields ==
    << Field(FSlug, "CharField", FALSE, FALSE),
       Field(FText, "CharField", TRUE, TRUE),
       Field(FViews, "IntegerField", FALSE, TRUE),
       Field(FName, "CharField", FALSE, TRUE) >>

FieldType(cls) ==
    CASE cls \in {"DateField", "DateTimeField"} -> "date"
      [] cls = "IntegerField" -> "long"
      [] cls = "FloatField" -> "float"
      [] cls = "BooleanField" -> "boolean"
      [] OTHER -> "text"

FieldData_NextColumn(f, column) ==
    [field_name |-> f.field_name,
     type |-> FieldType(f.cls),
     multi_valued |-> IF f.cls = "MultiValueField" THEN "true" ELSE "false",
     column |-> column + 1]

FieldData(f, column) ==
    [field_name |-> f.field_name,
     type |-> FieldType(f.cls),
     multi_valued |-> IF f.cls = "MultiValueField" THEN "true" ELSE "false",
     column |-> column]

\* The loop of build_schema over the fields left, with the content field
\* name, the schema fields and the column counter so far.
RECURSIVE BuildSchemaLoop(_, _, _, _)
BuildSchemaLoop(fields, content, schema_fields, column) ==
    IF fields = <<>> THEN <<content, schema_fields>>
    ELSE LET f == Head(fields)
             c == IF f.document THEN f.field_name ELSE content
         IN  IF f.indexed
             THEN BuildSchemaLoop(Tail(fields), c,
                                  Append(schema_fields, FieldData(f, column)),
                                  column + 1)
             ELSE BuildSchemaLoop(Tail(fields), c, schema_fields, column)

build_schema(fields) == BuildSchemaLoop(fields, <<>>, <<>>, 0)

\* No database at the path: nothing has opened it for writing yet.
NoDatabase == [exists |-> FALSE]

\* self.schema and self.content_field_name before _database has set them.
Unset == [unset |-> TRUE]

\* _database(writable=True): the schema is built from the site's fields
\* and written to the metadata of the (created or opened) database.
OpenWritable ==
    LET built == build_schema(site)
    IN  /\ content_field_name' = built[1]
        /\ schema' = built[2]
        /\ meta' = [exists |-> TRUE, schema |-> Pickle(built[2]),
                    content |-> Pickle(built[1])]
        /\ UNCHANGED site

\* A read-only open that builds the schema as a writable one does.
OpenReadOnly_Rebuild ==
    /\ schema' = build_schema(site)[2]
    /\ content_field_name' = build_schema(site)[1]
    /\ UNCHANGED <<meta, site>>

\* _database(): the schema is read from the metadata of the database.
OpenReadOnly ==
    /\ schema' = Unpickle(meta.schema)
    /\ content_field_name' = Unpickle(meta.content)
    /\ UNCHANGED <<meta, site>>

\* A model instance with its prepared data (index.prepare(obj)).
Obj(app_label, module_name, pk, data) ==
    [app_label |-> app_label, module_name |-> module_name, pk |-> pk,
     data |-> data]

\* '%s.%s' % (app_label, module_name)
ModelName(m) == m.app_label \o Dot \o m.module_name

\* haystack.utils.get_identifier(obj): app_label.module_name.pk
get_identifier(obj) == ModelName(obj) \o Dot \o DecDigits(obj.pk)

DocumentId(obj) == DOCUMENT_ID_TERM_PREFIX \o get_identifier(obj)

ContentTypeTerm(m) == DOCUMENT_CT_TERM_PREFIX \o ModelName(m)

FieldPrefix(field_name) == DOCUMENT_CUSTOM_TERM_PREFIX \o Upper(field_name)

\* The loop of update over the fields of the schema for one object.
RECURSIVE IndexFields(_, _, _)
IndexFields(doc, fields, data) ==
    IF fields = <<>> THEN doc
    ELSE LET field == Head(fields)
         IN  IF field.field_name \in DOMAIN data
             THEN LET value == data[field.field_name]
                      t == _marshal_term(value)
                      d1 == IndexText(doc, t, <<>>)
                      d2 == IndexText(d1, t, FieldPrefix(field.field_name))
                      d3 == AddValue(d2, field.column, _marshal_value(value))
                  IN  IndexFields(d3, Tail(fields), data)
             ELSE IndexFields(doc, Tail(fields), data)

\* _marshal_term raises UnicodeDecodeError for a field of the object.
RaisesDecodeError(sch, obj) ==
    \E i \in 1..Len(sch) :
        /\ sch[i].field_name \in DOMAIN obj.data
        /\ ~Decodable(obj.data[sch[i].field_name])

\* The document update builds for one object.
MakeDocument(sch, obj) ==
    LET d == AddTerm(AddTerm(IndexFields(NewDocument, sch, obj.data),
                             DocumentId(obj)),
                     ContentTypeTerm(obj))
    IN  [terms |-> TermsOf(d),
         values |-> ValuesOf(d),
         data |-> Pickle(<<obj.app_label, obj.module_name, obj.pk, obj.data>>)]

\* database.replace_document(document_id, document) at the end of the loop
\* body of update.
WriteDocument(db, sch, obj) ==
    ReplaceDocument(db, DocumentId(obj), MakeDocument(sch, obj))

\* A loop that passes over the object with the UnicodeDecodeError and goes
\* on with the next.
RECURSIVE UpdateLoop_SkipBroken(_, _, _)
UpdateLoop_SkipBroken(db, sch, objs) ==
    IF objs = <<>> THEN db
    ELSE IF RaisesDecodeError(sch, Head(objs))
    THEN UpdateLoop_SkipBroken(db, sch, Tail(objs))
    ELSE UpdateLoop_SkipBroken(WriteDocument(db, sch, Head(objs)), sch,
                               Tail(objs))

\* The loop of update: the first UnicodeDecodeError ends it.
RECURSIVE UpdateLoop(_, _, _)
UpdateLoop(db, sch, objs) ==
    IF objs = <<>> THEN db
    ELSE IF RaisesDecodeError(sch, Head(objs)) THEN db
    ELSE UpdateLoop(WriteDocument(db, sch, Head(objs)), sch, Tail(objs))

\* A clear that takes a list of models for no list at all.
ClearModels_Everything(index, models) == Restrict(index, {})

\* The loop of clear over the models given.
RECURSIVE ClearModels(_, _)
ClearModels(index, models) ==
    IF models = <<>> THEN index
    ELSE ClearModels(DeleteByTerm(index, ContentTypeTerm(Head(models))),
                     Tail(models))

\* The number of objects update writes: those before the first
\* UnicodeDecodeError.
RECURSIVE Written(_, _)
Written(sch, objs) ==
    IF objs = <<>> THEN 0
    ELSE IF RaisesDecodeError(sch, Head(objs)) THEN 0
    ELSE 1 + Written(sch, Tail(objs))

\* The loop of clear over the matches of the query for all documents.
RECURSIVE DeleteMatches(_, _)
DeleteMatches(index, matches) ==
    IF matches = <<>> THEN index
    ELSE DeleteMatches(DeleteByDocid(index, Head(matches)), Tail(matches))

\* A clear without the branch for no models.
ClearIndex_ModelsOnly(index, models) == ClearModels(index, models)

\* clear(models) on the documents of the index.
ClearIndex(index, models) ==
    IF models = <<>>
    THEN DeleteMatches(index,
                       GetMSet(MatchAll, index, 0, Cardinality(DOMAIN index)))
    ELSE ClearModels(index, models)

(***************************************************************************)
(* SearchQuery: the compiler from a filter tree to a query.                *)
(* A node has a connector, a negation flag and children; a child is a node *)
(* or a leaf (field, filter type, value).  The value of an `in` leaf is a  *)
(* list of values, the value of any other leaf a single value.             *)
(***************************************************************************)

Node(connector, negated, children) ==
    [node |-> TRUE, connector |-> connector, negated |-> negated,
     children |-> children]

Leaf(field, filter_type, value) ==
    [node |-> FALSE, field |-> field, filter_type |-> filter_type,
     value |-> value]

ListV(items) == [k |-> "list", items |-> items]

FContent == <<"c", "o", "n", "t", "e", "n", "t">>

_all_query == MatchAll

_term_query(term, field) ==
    IF field # <<>>
    THEN TermQuery(DOCUMENT_CUSTOM_TERM_PREFIX \o Upper(field) \o term)
    ELSE TermQuery(term)

_phrase_query(term_list, field) ==
    IF field # <<>>
    THEN TermListQuery("PHRASE",
            [i \in 1..Len(term_list) |->
                DOCUMENT_CUSTOM_TERM_PREFIX \o Upper(field) \o term_list[i]])
    ELSE TermListQuery("PHRASE", term_list)

HasBlank(term) == \E i \in 1..Len(term) : term[i] = " "

\* What _content_field and _filter_exact build before negation: a phrase
\* for a term with a blank, a term query otherwise.
TermOrPhrase(term, field) ==
    IF HasBlank(term) THEN _phrase_query(Split(term), field)
    ELSE _term_query(term, field)

_content_field(term, is_not) ==
    IF is_not THEN AndNotQuery(_all_query, TermOrPhrase(term, <<>>))
    ELSE TermOrPhrase(term, <<>>)

_filter_exact(term, field, is_not) ==
    IF is_not THEN AndNotQuery(_all_query, TermOrPhrase(term, field))
    ELSE TermOrPhrase(term, field)

_filter_in(term_list, field, is_not) ==
    LET query_list ==
            [i \in 1..Len(term_list) |->
                Query("OR", <<TermOrPhrase(term_list[i], field)>>)]
    IN  IF is_not THEN AndNotQuery(_all_query, Query("OR", query_list))
        ELSE Query("OR", query_list)

Foo == <<"f", "o", "o">>

\* Besides returning, _filter_startswith makes a SearchBackend, opens a
\* read-only handle on it and prints every term of the index: see
\* StartswithCalls.
_filter_startswith(term, field, is_not) ==
    _filter_in(<<term, Foo>>, field, is_not)

ImplementedFilter(leaf) ==
    leaf.field = FContent
        \/ leaf.filter_type \in {"exact", "startswith", "in"}

\* The marshalled term or list of terms of a leaf.
LeafTerm(leaf) ==
    IF leaf.value.k = "list"
    THEN [i \in 1..Len(leaf.value.items) |-> _marshal_term(leaf.value.items[i])]
    ELSE _marshal_term(leaf.value)

\* The query the loop body of _query_from_search_node appends for a leaf
\* of an implemented filter type.
LeafQuery(leaf, is_not) ==
    IF leaf.field = FContent THEN _content_field(LeafTerm(leaf), is_not)
    ELSE CASE leaf.filter_type = "exact" ->
                _filter_exact(LeafTerm(leaf), leaf.field, is_not)
           [] leaf.filter_type = "startswith" ->
                _filter_startswith(LeafTerm(leaf), leaf.field, is_not)
           [] leaf.filter_type = "in" ->
                _filter_in(LeafTerm(leaf), leaf.field, is_not)

\* A connector that is always taken for AND.
ConnectorOp_AlwaysAnd(connector) == "AND"

\* The operator of the query _query_from_search_node returns.
ConnectorOp(connector) == IF connector = "OR" THEN "OR" ELSE "AND"

RECURSIVE _query_from_search_node(_, _)
RECURSIVE QueryList(_, _)

\* query_list at the end of the loop of _query_from_search_node: one entry
\* for every child that is a node or a leaf of an implemented filter type,
\* with the position of the child.
QueryList(search_node, is_not) ==
    LET entry(i) ==
            LET child == search_node.children[i]
            IN  IF child.node
                THEN <<[child |-> i,
                        query |-> Query("AND",
                            <<_query_from_search_node(child, child.negated)>>)]>>
                ELSE IF ImplementedFilter(child)
                     THEN <<[child |-> i, query |-> LeafQuery(child, is_not)]>>
                     ELSE <<>>
        F[i \in 0..Len(search_node.children)] ==
            IF i = 0 THEN <<>> ELSE F[i - 1] \o entry(i)
    IN  F[Len(search_node.children)]

_query_from_search_node(search_node, is_not) ==
    LET entries == QueryList(search_node, is_not)
    IN  Query(ConnectorOp(search_node.connector),
              [i \in 1..Len(entries) |-> entries[i].query])

\* The leaves _query_from_search_node compiles, each with its path from
\* the node (the positions of the children walked), and the query the
\* loop body appended for it.
RECURSIVE LeafQueries(_, _, _)
LeafQueries(search_node, is_not, path) ==
    UNION { LET child == search_node.children[i]
            IN  IF child.node
                THEN LeafQueries(child, child.negated, Append(path, i))
                ELSE IF ImplementedFilter(child)
                     THEN {[path |-> Append(path, i), leaf |-> child,
                            query |-> LeafQuery(child, is_not)]}
                     ELSE {}
            : i \in 1..Len(search_node.children) }

\* The nodes _query_from_search_node is called on, each with the is_not it
\* is called with.
RECURSIVE NodeCalls(_, _)
NodeCalls(search_node, is_not) ==
    {[node |-> search_node, is_not |-> is_not]}
        \cup UNION { LET child == search_node.children[i]
                     IN  IF child.node THEN NodeCalls(child, child.negated)
                         ELSE {}
                     : i \in 1..Len(search_node.children) }

\* The number of calls of _filter_startswith while a node is compiled.
RECURSIVE StartswithCalls(_)
StartswithCalls(search_node) ==
    LET calls(child) ==
            IF child.node THEN StartswithCalls(child)
            ELSE IF child.field # FContent /\ child.filter_type = "startswith"
                 THEN 1 ELSE 0
        F[i \in 0..Len(search_node.children)] ==
            IF i = 0 THEN 0 ELSE F[i - 1] + calls(search_node.children[i])
    IN  F[Len(search_node.children)]

\* A SearchQuery: its filter tree, its models and its boost terms (pairs
\* of a term and a factor).
SearchQueryOf(filter, models, boost) ==
    [query_filter |-> filter, models |-> models, boost |-> boost]

ModelsQuery(models) ==
    Query("OR", [i \in 1..Len(models) |->
                    ScaleWeightQuery(TermQuery(ContentTypeTerm(models[i])), 0)])

BoostQuery(boost) ==
    Query("AND", [i \in 1..Len(boost) |->
                     ScaleWeightQuery(TermQuery(boost[i][1]), boost[i][2])])

\* A filter tree without children compiled to the empty query.
FilterQuery_NoFilterEmpty(filter) ==
    IF filter.children = <<>> THEN EmptyQuery
    ELSE _query_from_search_node(filter, FALSE)

\* The query of the filter tree: a tree without children is falsy.
FilterQuery(filter) ==
    IF filter.children = <<>> THEN MatchAll
    ELSE _query_from_search_node(filter, FALSE)

\* The query restricted to the models, if any.
RestrictToModels(query, models) ==
    IF models # <<>> THEN Query("AND", <<query, ModelsQuery(models)>>)
    ELSE query

\* The query with the boost terms, if any.
AddBoost(query, boost) ==
    IF boost # <<>> THEN Query("OR", <<query, BoostQuery(boost)>>)
    ELSE query

\* SearchQuery.build_query
build_query(sq) ==
    AddBoost(RestrictToModels(FilterQuery(sq.query_filter), sq.models),
             sq.boost)

NotEncoded == <<"?">>

(***************************************************************************)
(* The calls on the backend.  Each action is one call, from the opening of *)
(* its handle to its return; `last` records the call and what it returned. *)
(***************************************************************************)

MaxDocId == 2
MaxBatch == 2

BlogApp == <<"b", "l", "o", "g">>
PostModel == <<"p", "o", "s", "t">>
CoreApp == <<"c", "o", "r", "e">>
UserModel == <<"u", "s", "e", "r">>

Model(app_label, module_name) ==
    [app_label |-> app_label, module_name |-> module_name]

SampleModels == { Model(BlogApp, PostModel), Model(CoreApp, UserModel) }

SamplePks == {1, 2}

\* Prepared data: a one-word text, a two-word text with a name and a view
\* count, and a text that cannot be decoded.
DataShort == [f \in {FText} |-> TextV(<<"D", "a">>)]

DataLong ==
    [f \in {FText, FName, FViews} |->
        CASE f = FText -> TextV(<<"d", "a", " ", "f", "o", "o", "s">>)
          [] f = FName -> TextV(<<"D", "a", "b">>)
          [] f = FViews -> IntV(FALSE, 0, 5)]

DataBroken == [f \in {FText} |-> Undecodable]

SampleData == {DataShort, DataLong, DataBroken}

SampleObjs ==
    { Obj(m.app_label, m.module_name, pk, data) :
        m \in SampleModels, pk \in SamplePks, data \in SampleData }

SeqsUpTo(S, n) == UNION { [1..k -> S] : k \in 0..n }

\* The iterables update is called with: the instances of one model, each
\* instance once.
SampleBatches ==
    { b \in SeqsUpTo(SampleObjs, MaxBatch) :
        \A i, j \in 1..Len(b) :
            /\ ModelName(b[i]) = ModelName(b[j])
            /\ i # j => b[i].pk # b[j].pk }

\* The iterables of a single instance.
SingleBatches == { b \in SampleBatches : Len(b) = 1 }

SampleModelLists ==
    { ms \in SeqsUpTo(SampleModels, 2) :
        \A i, j \in 1..Len(ms) : i # j => ms[i] # ms[j] }

\* What update(index, iterable) does to the backend and the index.
UpdateIndex(iterable) ==
    LET sch == build_schema(site)[2]
        db == UpdateLoop([docs |-> docs, last |-> lastdocid], sch, iterable)
    IN  /\ db.last <= MaxDocId
        /\ OpenWritable
        /\ docs' = db.docs
        /\ lastdocid' = db.last

\* update(index, iterable); `last` records how many objects were written
\* and how many of them were added under a new docid.
Update(iterable) ==
    /\ UpdateIndex(iterable)
    /\ last' = [op |-> "update",
                written |-> Written(build_schema(site)[2], iterable),
                added |-> lastdocid' - lastdocid]

\* remove(obj)
Remove(obj) ==
    /\ OpenWritable
    /\ docs' = DeleteByTerm(docs, DocumentId(obj))
    /\ UNCHANGED lastdocid
    /\ last' = [op |-> "remove"]

\* clear(models)
Clear(models) ==
    /\ OpenWritable
    /\ docs' = ClearIndex(docs, models)
    /\ UNCHANGED lastdocid
    /\ last' = [op |-> "clear", models |-> models,
                removed |-> Cardinality(DOMAIN docs)
                              - Cardinality(DOMAIN ClearIndex(docs, models))]

\* The result of search for the matches of a window.
SearchResults(index, matches) ==
    [i \in 1..Len(matches) |-> Unpickle(index[matches[i]].data)]

\* What search leaves in `last`.
SearchReturn(sq, start_offset, end_offset, outcome, opened, found, hits) ==
    [op |-> "search", sq |-> sq, start_offset |-> start_offset,
     end_offset |-> end_offset, outcome |-> outcome, opened |-> opened,
     results |-> found, hits |-> hits]

\* The window of get_mset: without end_offset it ends at the document count.
EndOffset(index, end_offset) ==
    IF end_offset = 0 THEN Cardinality(DOMAIN index) ELSE end_offset

\* search(query, start_offset=.., end_offset=..) with the other arguments
\* at their defaults and spelling off.  An end_offset of 0 stands for None.
search(query, sq, start_offset, end_offset) ==
    IF QueryEmpty(query)
    THEN /\ last' = SearchReturn(sq, start_offset, end_offset,
                                 "returned", 0, <<>>, 0)
         /\ UNCHANGED <<indexVars, backendVars>>
    ELSE IF ~meta.exists
    THEN \* xapian.Database(path) raises: there is no database
         /\ last' = SearchReturn(sq, start_offset, end_offset,
                                 "raised", 0, <<>>, 0)
         /\ UNCHANGED <<indexVars, backendVars>>
    ELSE IF EndOffset(docs, end_offset) < start_offset
    THEN \* get_mset is asked for a negative number of items, where the
         \* engine takes an unsigned one: the binding refuses the call, or
         \* the number wraps to more items than there are documents.
         /\ OpenReadOnly
         /\ \/ last' = SearchReturn(sq, start_offset, end_offset,
                                    "raised", 1, <<>>, 0)
            \/ last' = SearchReturn(sq, start_offset, end_offset,
                            "returned", 1,
                            SearchResults(docs,
                                GetMSet(query, docs, start_offset,
                                        Cardinality(DOMAIN docs))),
                            MatchesEstimated(query, docs))
         /\ UNCHANGED <<docs, lastdocid>>
    ELSE /\ OpenReadOnly
         /\ last' = SearchReturn(sq, start_offset, end_offset,
                        "returned", 1,
                        SearchResults(docs,
                            GetMSet(query, docs, start_offset,
                                    EndOffset(docs, end_offset) - start_offset)),
                        MatchesEstimated(query, docs))
         /\ UNCHANGED <<docs, lastdocid>>

\* A SearchQuery is run: search on the query build_query returns.
Search(sq, start_offset, end_offset) ==
    search(build_query(sq), sq, start_offset, end_offset)

\* The filter trees search is run on: none, one content leaf, one leaf of
\* a filter type that compiles to nothing.
EmptyFilter == Node("AND", FALSE, <<>>)

ContentDa == Leaf(FContent, "content", TextV(<<"d", "a">>))

ViewsGt == Leaf(FViews, "gt", IntV(FALSE, 0, 1))

SampleSearchFilters ==
    { EmptyFilter, Node("AND", FALSE, <<ContentDa>>),
      Node("AND", FALSE, <<ViewsGt>>) }

SampleSearchQueries ==
    { SearchQueryOf(f, <<>>, <<>>) : f \in SampleSearchFilters }
        \cup { SearchQueryOf(EmptyFilter, <<Model(BlogApp, PostModel)>>, <<>>) }

SampleStarts == {0, 1}

\* 0 stands for no end_offset.
SampleEnds == {0, 2}

\* The state after SearchBackend(): no database, no schema read.
InitIndex ==
    /\ docs = <<>>
    /\ lastdocid = 0
    /\ meta = NoDatabase
    /\ schema = Unset
    /\ content_field_name = Unset
    /\ site = SiteFields
    /\ write_lock = "free"
    /\ last = [op |-> "init"]

\* The codec at rest.
IdleCodec ==
    /\ va = NotEncoded /\ vb = NotEncoded
    /\ ea = NotEncoded /\ eb = NotEncoded
    /\ cpc = "idle"

\* A SearchQuery before any filter is added.
IdleCompiler == query_filter = EmptyFilter

\* No date facets asked for.
IdleFacets ==
    /\ facet_params = NotEncoded
    /\ date_range = NotEncoded
    /\ facet_list = <<>>
    /\ fpc = "idle"
    /\ results = <<>>
    /\ result_n = 0
    /\ tpc = "idle"

Init == InitIndex /\ IdleCodec /\ IdleCompiler /\ IdleFacets

\* The index under update, remove and clear.
Next ==
    \/ \E b \in SampleBatches : Update(b) /\ UNCHANGED <<codecVars, handleVars, compilerVars, facetVars>>
    \/ \E m \in SampleModels, pk \in SamplePks :
          Remove(Obj(m.app_label, m.module_name, pk, DataShort))
              /\ UNCHANGED <<codecVars, handleVars, compilerVars, facetVars>>
    \/ \E ms \in SampleModelLists : Clear(ms) /\ UNCHANGED <<codecVars, handleVars, compilerVars, facetVars>>

Spec == Init /\ [][Next]_vars

\* The index under update of single instances and clear of everything,
\* and searches on it.
NextSearch ==
    \/ \E b \in SingleBatches : Update(b) /\ UNCHANGED <<codecVars, handleVars, compilerVars, facetVars>>
    \/ Clear(<<>>) /\ UNCHANGED <<codecVars, handleVars, compilerVars, facetVars>>
    \/ \E sq \in SampleSearchQueries, s \in SampleStarts, e \in SampleEnds :
          Search(sq, s, e) /\ UNCHANGED <<codecVars, handleVars, compilerVars, facetVars>>

SpecSearch == Init /\ [][NextSearch]_vars

(***************************************************************************)
(* Properties of the index.                                                *)
(***************************************************************************)

IsIdentifierTerm(t) == StartsWith(t, DOCUMENT_ID_TERM_PREFIX)

\* The identifier terms a document carries.
IdentifierTermsOf(doc) == { t \in DOMAIN doc.terms : IsIdentifierTerm(t) }

\* C1: after any sequence of update, remove and clear, no two documents of
\* the index carry the same identifier term, and every document carries
\* exactly one: the number of documents for an identifier is 0 or 1.
C1_UniqueIdentifier ==
    /\ \A id \in DOMAIN docs : Cardinality(IdentifierTermsOf(docs[id])) = 1
    /\ \A id1, id2 \in DOMAIN docs :
           IdentifierTermsOf(docs[id1]) \cap IdentifierTermsOf(docs[id2]) # {}
               => id1 = id2

\* An update has written an object whose identifier was present, beside a
\* document of another identifier.
C1_Witness ==
    /\ last.op = "update"
    /\ last.written > last.added
    /\ Cardinality(DOMAIN docs) = 2

\* The documents of an index that carry the type marker of one of the
\* models.
DocsOfModels(index, models) ==
    { id \in DOMAIN index :
        \E i \in 1..Len(models) :
            HasTerm(index[id], ContentTypeTerm(models[i])) }

\* C2: clear(models) with a list of models removes exactly the documents
\* that carry the type marker of one of the models and leaves every other
\* document, with its terms, values and data, as it was.
C2_ClearModelsFrame ==
    [][ (last'.op = "clear" /\ last'.models # <<>>)
            => docs' = Restrict(docs, DOMAIN docs
                                        \ DocsOfModels(docs, last'.models)) ]_vars

\* A clear of one model has removed a document and left another.
C2_Witness ==
    /\ last.op = "clear"
    /\ Len(last.models) = 1
    /\ last.removed = 1
    /\ Cardinality(DOMAIN docs) = 1

\* C3: clear() without models leaves no document in the index, and a search
\* run on the cleared index returns no hit and no result: it returns for
\* the default window, whatever the query.
C3_ClearAll ==
    /\ [](last.op = "clear" /\ last.models = <<>> => DOMAIN docs = {})
    /\ [][ (last.op = "clear" /\ last.models = <<>> /\ last'.op = "search")
              => /\ last'.outcome = "returned"
                     => last'.hits = 0 /\ last'.results = <<>>
                 /\ (last'.start_offset = 0 /\ last'.end_offset = 0)
                     => last'.outcome = "returned" ]_vars

\* Two records were indexed, everything was cleared, and a search on the
\* database found nothing.
C3_Witness ==
    /\ last.op = "search"
    /\ last.outcome = "returned"
    /\ last.opened = 1
    /\ last.hits = 0
    /\ lastdocid = 2
    /\ DOMAIN docs = {}

\* The documents a search query without filter is about: all of them, or
\* those of its models.
DocsInScope(index, models) ==
    IF models = <<>> THEN DOMAIN index ELSE DocsOfModels(index, models)

MaxDepth == 2

NameExact == Leaf(FName, "exact", TextV(<<"D", "a", "b">>))

ViewsIn == Leaf(FViews, "in", ListV(<<IntV(FALSE, 0, 5), IntV(FALSE, 0, 7)>>))

NameStarts == Leaf(FName, "startswith", TextV(<<"D", "a">>))

SampleLeaves == { ContentDa, NameExact, ViewsIn, NameStarts, ViewsGt }

\* No leaf, one leaf, two different leaves.
SampleLeafSeqs ==
    { <<>> } \cup { <<l>> : l \in SampleLeaves }
        \cup { p \in SampleLeaves \X SampleLeaves : p[1] # p[2] }

Connectors == { "AND", "OR" }

\* The filter trees of at most the given depth: a node of leaves, or a node
\* of one node and at most one leaf, before or after it.
RECURSIVE SampleTrees(_)
SampleTrees(depth) ==
    IF depth = 1
    THEN { Node(c, n, ch) :
             c \in Connectors, n \in BOOLEAN, ch \in SampleLeafSeqs }
    ELSE LET below == SampleTrees(depth - 1)
         IN  below \cup
             { Node(c, n, ch) :
                 c \in Connectors, n \in BOOLEAN,
                 ch \in UNION { { <<t>>, <<NameExact, t>>, <<t, ContentDa>> } :
                                  t \in below } }

\* The indexes the compiler runs beside: no database, and the database an
\* update of two records leaves.
NoIndex == [exists |-> FALSE, docs |-> <<>>, last |-> 0]

SampleIndexes ==
    { NoIndex,
      [exists |-> TRUE] @@
          UpdateLoop([docs |-> <<>>, last |-> 0], build_schema(SiteFields)[2],
                     << Obj(BlogApp, PostModel, 1, DataLong),
                        Obj(BlogApp, PostModel, 2, DataShort) >>) }

InitQuery ==
    /\ \E ix \in SampleIndexes :
          /\ docs = ix.docs
          /\ lastdocid = ix.last
          /\ meta = IF ix.exists
                    THEN [exists |-> TRUE,
                          schema |-> Pickle(build_schema(SiteFields)[2]),
                          content |-> Pickle(build_schema(SiteFields)[1])]
                    ELSE NoDatabase
    /\ schema = Unset
    /\ content_field_name = Unset
    /\ site = SiteFields
    /\ write_lock = "free"
    /\ query_filter \in SampleTrees(MaxDepth)
    /\ last = [op |-> "init"]
    /\ IdleCodec
    /\ IdleFacets

\* build_query() on a SearchQuery without models and boost.  Every call of
\* _filter_startswith makes a SearchBackend and opens a read-only handle on
\* the database, which raises when there is no database.
BuildQuery ==
    /\ last.op = "init"
    /\ LET calls == StartswithCalls(query_filter)
       IN  IF calls > 0 /\ ~meta.exists
           THEN last' = [op |-> "build_query", outcome |-> "raised",
                         query |-> EmptyQuery, leaves |-> {}, opened |-> 0]
           ELSE last' = [op |-> "build_query", outcome |-> "returned",
                         query |-> build_query(
                                      SearchQueryOf(query_filter, <<>>, <<>>)),
                         leaves |-> LeafQueries(query_filter, FALSE, <<>>),
                         opened |-> calls]
    /\ UNCHANGED <<codecVars, handleVars, indexVars, backendVars, compilerVars,
                   facetVars>>

NextQuery == BuildQuery

SpecQuery == InitQuery /\ [][NextQuery]_vars

(***************************************************************************)
(* Properties of the compiler.                                             *)
(***************************************************************************)

\* The node a path leads to.
RECURSIVE NodeAt(_, _)
NodeAt(search_node, path) ==
    IF path = <<>> THEN search_node
    ELSE NodeAt(search_node.children[Head(path)], Tail(path))

\* A node above the child a path leads to, the root included, is negated.
NegatedAbove(root, path) ==
    \E k \in 0..(Len(path) - 1) : NodeAt(root, SubSeq(path, 1, k)).negated

\* C5: the query compiled for a leaf of an implemented filter type is
\* AND_NOT(all documents, P) when a node on the path from the root to the
\* leaf is negated, and P otherwise, P being the query of the leaf without
\* negation.
C5_NegationInherited ==
    (last.op = "build_query" /\ last.outcome = "returned")
        => \A e \in last.leaves :
              e.query = IF NegatedAbove(query_filter, e.path)
                        THEN AndNotQuery(MatchAll, LeafQuery(e.leaf, FALSE))
                        ELSE LeafQuery(e.leaf, FALSE)

\* The terms of a query, from left to right.
RECURSIVE TermSeq(_)
TermSeq(q) ==
    IF q.op = "EMPTY" THEN <<>>
    ELSE IF q.op = "TERM" THEN <<q.term>>
    ELSE LET F[i \in 0..Len(q.subs)] ==
                 IF i = 0 THEN <<>> ELSE F[i - 1] \o TermSeq(q.subs[i])
         IN  F[Len(q.subs)]

TermSet(q) == { TermSeq(q)[i] : i \in 1..Len(TermSeq(q)) }

\* The terms of the queries of a list, in the order of the list.
TermSeqOfList(queries) ==
    LET F[i \in 0..Len(queries)] ==
            IF i = 0 THEN <<>> ELSE F[i - 1] \o TermSeq(queries[i].query)
    IN  F[Len(queries)]

\* The documents the connector of a node asks for, given the queries of its
\* children: those matching one of them for OR, all of them otherwise.
CombinedMatches(connector, queries, index) ==
    IF connector = "OR"
    THEN { id \in DOMAIN index :
             \E i \in 1..Len(queries) : Matches(queries[i].query, index[id]) }
    ELSE { id \in DOMAIN index :
             \A i \in 1..Len(queries) : Matches(queries[i].query, index[id]) }

\* C6: at every node of the tree, the query compiled for the node combines
\* the queries compiled for its children, in the order of the children,
\* with OR when the connector of the node is 'OR' and with AND otherwise;
\* the query of a child that is a node is the one compiled from its own
\* children with its own connector.
C6_ConnectorCombines ==
    (last.op = "build_query" /\ last.outcome = "returned")
        => \A call \in NodeCalls(query_filter, FALSE) :
              LET node == call.node
                  kids == QueryList(node, call.is_not)
                  q == _query_from_search_node(node, call.is_not)
                  full == { i \in 1..Len(kids) : ~QueryEmpty(kids[i].query) }
              IN  /\ (node = query_filter /\ node.children # <<>>)
                        => last.query = q
                  /\ \A i \in 1..Len(kids) :
                        node.children[kids[i].child].node
                            => kids[i].query = _query_from_search_node(
                                   node.children[kids[i].child],
                                   node.children[kids[i].child].negated)
                  /\ kids # <<>>
                        => MatchSet(q, docs)
                             = CombinedMatches(node.connector, kids, docs)
                  /\ ~QueryEmpty(q) => TermSeq(q) = TermSeqOfList(kids)
                  /\ (~QueryEmpty(q) /\ Cardinality(full) >= 2)
                        => q.op = IF node.connector = "OR" THEN "OR" ELSE "AND"

\* An OR node of a leaf and an AND node of two leaves was compiled, on an
\* index with documents, to an OR of a term and an AND.
C6_Witness ==
    /\ last.op = "build_query"
    /\ last.outcome = "returned"
    /\ DOMAIN docs # {}
    /\ query_filter.connector = "OR"
    /\ Len(query_filter.children) = 2
    /\ ~query_filter.children[1].node
    /\ query_filter.children[2].node
    /\ query_filter.children[2].connector = "AND"
    /\ Len(query_filter.children[2].children) = 2
    /\ last.query.op = "OR"
    /\ Len(last.query.subs) = 2
    /\ last.query.subs[2].op = "AND"
    /\ MatchSet(last.query, docs) # MatchSet(last.query.subs[2], docs)

\* The terms stored in an index.
StoredTerms(index) == UNION { DOMAIN index[id].terms : id \in DOMAIN index }

\* The stored terms of a field that begin with the encoded value.
StoredWithPrefix(index, field, value) ==
    { t \in StoredTerms(index) :
        StartsWith(t, FieldPrefix(field) \o _marshal_term(value)) }

\* C7: beside a database, a startswith leaf compiles to the OR of exactly
\* the stored terms of its field that begin with the encoded value, and
\* compiling opens no backend and no handle.
C7_StartswithPrefixScan ==
    (last.op = "build_query" /\ meta.exists)
        => /\ last.outcome = "returned"
           /\ last.opened = 0
           /\ \A e \in last.leaves :
                 (e.leaf.field # FContent /\ e.leaf.filter_type = "startswith")
                     => TermSet(e.query) \ {<<>>}
                          = StoredWithPrefix(docs, e.leaf.field, e.leaf.value)

(***************************************************************************)
(* SearchBackend._do_date_facets: the boundaries of the buckets.  The loop *)
(* is taken one iteration at a time.                                       *)
(***************************************************************************)

\* datetime.MAXYEAR
MAXYEAR == 9999

IsLeap(y) == (y % 4 = 0 /\ y % 100 # 0) \/ y % 400 = 0

DaysInMonth(y, m) ==
    CASE m \in {4, 6, 9, 11} -> 30
      [] m = 2 -> (IF IsLeap(y) THEN 29 ELSE 28)
      [] OTHER -> 31

ValueError == [k |-> "ValueError"]

\* d.replace(year=y, month=m): ValueError when the fields are no date.
Replace(d, y, m) ==
    IF y \in 1..MAXYEAR /\ m \in 1..12 /\ d.day <= DaysInMonth(y, m)
    THEN [d EXCEPT !.year = y, !.month = m]
    ELSE ValueError

NextDay(d) ==
    IF d.day < DaysInMonth(d.year, d.month) THEN [d EXCEPT !.day = d.day + 1]
    ELSE IF d.month < 12 THEN [d EXCEPT !.month = d.month + 1, !.day = 1]
    ELSE [d EXCEPT !.year = d.year + 1, !.month = 1, !.day = 1]

\* d + datetime.timedelta(days=n), within the years of the calendar.
RECURSIVE AddDays(_, _)
AddDays(d, n) == IF n = 0 THEN d ELSE AddDays(NextDay(d), n - 1)

\* d + datetime.timedelta(seconds=n): a date takes the whole days of the
\* duration only, a date-time carries the seconds into its day.
AddSeconds(d, n) ==
    IF d.k = "date" THEN AddDays(d, n \div 86400)
    ELSE LET total == d.hour * 3600 + d.minute * 60 + d.second + n
             day == AddDays(d, total \div 86400)
             rest == total % 86400
         IN  [day EXCEPT !.hour = rest \div 3600,
                         !.minute = (rest % 3600) \div 60,
                         !.second = rest % 60]

\* facet_params.get('gap_by') of parameters without the key.
NoGapBy == "None"

\* The fields of a date or date-time from the year down.
Fields(v) ==
    IF v.k = "date" THEN <<v.year, v.month, v.day>>
    ELSE <<v.year, v.month, v.day, v.hour, v.minute, v.second, v.microsecond>>

RECURSIVE FieldsLess(_, _)
FieldsLess(s, t) ==
    IF s = <<>> \/ t = <<>> THEN FALSE
    ELSE IF Head(s) # Head(t) THEN Head(s) < Head(t)
    ELSE FieldsLess(Tail(s), Tail(t))

\* a < b for two dates or two date-times.
DateLess(a, b) == FieldsLess(Fields(a), Fields(b))

\* d.isoformat()
IsoFormat(v) ==
    LET day == PadNat(v.year, YearWidth) \o <<"-">> \o PadNat(v.month, FieldWidth)
                   \o <<"-">> \o PadNat(v.day, FieldWidth)
    IN  IF v.k = "date" THEN day
        ELSE day \o <<"T">> \o PadNat(v.hour, FieldWidth) \o <<":">>
                 \o PadNat(v.minute, FieldWidth) \o <<":">>
                 \o PadNat(v.second, FieldWidth)
                 \o (IF v.microsecond # 0
                     THEN <<".">> \o PadNat(v.microsecond, MicroWidth)
                     ELSE <<>>)

\* The month branch of the loop body.
AdvanceMonth(d, gap_value) ==
    IF d.month = 12 THEN Replace(d, d.year + gap_value, 1)
    ELSE Replace(d, d.year, d.month + gap_value)

\* The branches of the loop body on gap_type; no branch for a gap type
\* that is none of those of the code.
Advance(d, gap_type, gap_value) ==
    CASE gap_type = "year" -> Replace(d, d.year + gap_value, d.month)
      [] gap_type = "month" -> AdvanceMonth(d, gap_value)
      [] gap_type = "day" -> AddDays(d, gap_value)
      [] gap_type = "hour" -> AddSeconds(d, 3600 * gap_value)
      [] gap_type = "minute" -> AddSeconds(d, 60 * gap_value)
      [] gap_type = "second" -> AddSeconds(d, gap_value)
      [] OTHER -> d

\* sorted(facet_list, key=lambda n: n[0], reverse=True): descending by the
\* first component, equal entries in their order.
RECURSIVE InsertDescending(_, _)
InsertDescending(sorted, e) ==
    IF sorted = <<>> THEN <<e>>
    ELSE IF StrLess(Head(sorted)[1], e[1]) THEN <<e>> \o sorted
    ELSE <<Head(sorted)>> \o InsertDescending(Tail(sorted), e)

RECURSIVE SortedDescending(_)
SortedDescending(list) ==
    IF list = <<>> THEN <<>>
    ELSE InsertDescending(SortedDescending(SubSeq(list, 1, Len(list) - 1)),
                          list[Len(list)])

FacetParams(start_date, end_date, gap_by, gap_amount) ==
    [start_date |-> start_date, end_date |-> end_date, gap_by |-> gap_by,
     gap_amount |-> gap_amount]

MaxFacets == 6

\* date_range and facet_list are set for the facet.
FacetStart ==
    /\ fpc = "init"
    /\ date_range' = facet_params.start_date
    /\ facet_list' = <<>>
    /\ fpc' = "loop"
    /\ UNCHANGED <<facet_params, results, result_n, tpc>>

\* One iteration of the while loop; a ValueError of replace leaves the
\* method.
FacetAppend ==
    /\ fpc = "loop"
    /\ DateLess(date_range, facet_params.end_date)
    /\ Len(facet_list) < MaxFacets
    /\ facet_list' = Append(facet_list, <<IsoFormat(date_range), 0>>)
    /\ LET next == Advance(date_range, facet_params.gap_by,
                           facet_params.gap_amount)
       IN  IF next = ValueError
           THEN fpc' = "error" /\ UNCHANGED date_range
           ELSE fpc' = "loop" /\ date_range' = next
    /\ UNCHANGED <<facet_params, results, result_n, tpc>>

\* The loop has ended: the list is sorted and the results are to be
\* tallied.
FacetSort ==
    /\ fpc = "loop"
    /\ ~DateLess(date_range, facet_params.end_date)
    /\ facet_list' = SortedDescending(facet_list)
    /\ fpc' = "done"
    /\ tpc' = "count"
    /\ UNCHANGED <<facet_params, date_range, results, result_n>>

\* getattr(result, date_facet) of a result without a date.
None == [k |-> "none"]

\* The number a string of digits stands for.
RECURSIVE ToInt(_)
ToInt(s) ==
    IF s = <<>> THEN 0
    ELSE 10 * ToInt(SubSeq(s, 1, Len(s) - 1)) + DigitValue(s[Len(s)])

\* s is n digits.
IsDigits(s, n) == Len(s) = n /\ \A i \in 1..n : IsDigitChar(s[i])

\* datetime.datetime(*(time.strptime(s, '%Y-%m-%dT%H:%M:%S')[0:6])) on a
\* string of isoformat: ValueError when the string is not of the format,
\* as that of a date and that of a date-time with microseconds.
Strptime(s) ==
    IF /\ Len(s) = 19
       /\ IsDigits(SubSeq(s, 1, 4), 4) /\ s[5] = "-"
       /\ IsDigits(SubSeq(s, 6, 7), 2) /\ s[8] = "-"
       /\ IsDigits(SubSeq(s, 9, 10), 2) /\ s[11] = "T"
       /\ IsDigits(SubSeq(s, 12, 13), 2) /\ s[14] = ":"
       /\ IsDigits(SubSeq(s, 15, 16), 2) /\ s[17] = ":"
       /\ IsDigits(SubSeq(s, 18, 19), 2)
    THEN DateTimeV(ToInt(SubSeq(s, 1, 4)), ToInt(SubSeq(s, 6, 7)),
                   ToInt(SubSeq(s, 9, 10)), ToInt(SubSeq(s, 12, 13)),
                   ToInt(SubSeq(s, 15, 16)), ToInt(SubSeq(s, 18, 19)), 0)
    ELSE ValueError

\* A result date that is no date-time is made the midnight of its day.
AsDateTime(result_date) ==
    IF result_date.k = "datetime" THEN result_date
    ELSE DateTimeV(result_date.year, result_date.month, result_date.day,
                   0, 0, 0, 0)

Exceeds_OrEquals(result_date, facet_date) == ~DateLess(result_date, facet_date)

\* result_date > facet_date
Exceeds(result_date, facet_date) == DateLess(facet_date, result_date)

\* The scan of the list from entry n for the first boundary the date
\* exceeds: that entry is counted up and the scan ends.  The outcome is
\* the list, or the ValueError of strptime.
RECURSIVE TallyFrom(_, _, _)
TallyFrom(list, result_date, n) ==
    IF n > Len(list) THEN [raised |-> FALSE, list |-> list]
    ELSE LET facet_date == Strptime(list[n][1])
         IN  IF facet_date = ValueError THEN [raised |-> TRUE]
             ELSE IF Exceeds(result_date, facet_date)
             THEN [raised |-> FALSE,
                   list |-> [list EXCEPT ![n] = <<list[n][1], list[n][2] + 1>>]]
             ELSE TallyFrom(list, result_date, n + 1)

\* The body of the loop over the results for a result with a date.
TallyInto(list, result_date) == TallyFrom(list, AsDateTime(result_date), 1)

\* One result is tallied; a ValueError of strptime leaves the method.
FacetCount ==
    /\ tpc = "count"
    /\ result_n < Len(results)
    /\ LET result_date == results[result_n + 1]
       IN  IF result_date = None
           THEN /\ result_n' = result_n + 1
                /\ UNCHANGED <<facet_list, tpc>>
           ELSE IF TallyInto(facet_list, result_date).raised
           THEN /\ tpc' = "raised"
                /\ UNCHANGED <<facet_list, result_n>>
           ELSE /\ facet_list' = TallyInto(facet_list, result_date).list
                /\ result_n' = result_n + 1
                /\ UNCHANGED tpc
    /\ UNCHANGED <<facet_params, date_range, fpc, results>>

\* All results are tallied: the list is that of the facet.
FacetReturn ==
    /\ tpc = "count"
    /\ result_n = Len(results)
    /\ tpc' = "returned"
    /\ UNCHANGED <<facet_params, date_range, facet_list, fpc, results,
                   result_n>>

MaxResults == 2

\* The dates of results: none, a date, date-times on and off the midnight.
SampleResultDates ==
    { None, DateV(2009, 2, 1), DateTimeV(2009, 1, 1, 0, 0, 0, 0),
      DateTimeV(2009, 12, 15, 0, 0, 0, 5) }

SampleResults == SeqsUpTo(SampleResultDates, MaxResults)

SampleFacetYears == {2009}
SampleFacetMonths == {1, 11, 12}
SampleFacetDays == {1, 15}
SampleGapTypes ==
    {"year", "month", "day", "hour", "minute", "second", "week", NoGapBy}
SampleGapAmounts == {0, 1, 2, 3}

\* A day as a date and as the date-time of its midnight.
DayValues(y, m, d) == { DateV(y, m, d), DateTimeV(y, m, d, 0, 0, 0, 0) }

SampleFacetParams ==
    { FacetParams(s, e, t, g) :
        s \in UNION { DayValues(y, m, d) : y \in SampleFacetYears,
                        m \in SampleFacetMonths, d \in SampleFacetDays },
        e \in DayValues(2009, 6, 1) \cup DayValues(2010, 3, 1),
        t \in SampleGapTypes, g \in SampleGapAmounts }

\* Facets of a few seconds over the end of a year, and of two days.
SampleShortFacetParams ==
    { FacetParams(DateTimeV(2009, 12, 31, 23, 59, 58, 0),
                  DateTimeV(2010, 1, 1, 0, 0, 1, 0), t, g) :
        t \in SampleGapTypes, g \in SampleGapAmounts }
    \cup { FacetParams(DateV(2009, 12, 31), DateV(2010, 1, 2), t, 24) :
             t \in {"day", "hour"} }

InitFacets ==
    /\ facet_params \in { f \in SampleFacetParams :
                            f.start_date.k = f.end_date.k }
                        \cup SampleShortFacetParams
    /\ date_range = NotEncoded
    /\ facet_list = <<>>
    /\ fpc = "init"
    /\ results \in SampleResults
    /\ result_n = 0
    /\ tpc = "idle"
    /\ InitIndex
    /\ IdleCodec
    /\ IdleCompiler

NextFacets ==
    \/ FacetStart /\ UNCHANGED <<codecVars, handleVars, indexVars, backendVars,
                                 compilerVars, last>>
    \/ FacetAppend /\ UNCHANGED <<codecVars, handleVars, indexVars, backendVars,
                                  compilerVars, last>>
    \/ FacetSort /\ UNCHANGED <<codecVars, handleVars, indexVars, backendVars,
                                compilerVars, last>>
    \/ FacetCount /\ UNCHANGED <<codecVars, handleVars, indexVars, backendVars,
                                 compilerVars, last>>
    \/ FacetReturn /\ UNCHANGED <<codecVars, handleVars, indexVars, backendVars,
                                  compilerVars, last>>

SpecFacets == InitFacets /\ [][NextFacets]_vars

(***************************************************************************)
(* Properties of the date facets.                                          *)
(***************************************************************************)

\* start + n calendar months (a year being twelve).
PlusMonths(d, n) ==
    LET months == d.year * 12 + (d.month - 1) + n
    IN  [d EXCEPT !.year = months \div 12, !.month = (months % 12) + 1]

\* The months of a gap.
GapMonths(f) ==
    IF f.gap_by = "year" THEN 12 * f.gap_amount ELSE f.gap_amount

\* The k for which start + k gaps is before end; the range of k is that of
\* the months between the years of start and end.
BoundaryIndexes(f) ==
    { k \in 0..(12 * (f.end_date.year - f.start_date.year + 1)) :
        DateLess(PlusMonths(f.start_date, k * GapMonths(f)), f.end_date) }

\* The boundaries start + k gaps before end, the latest first.
ExpectedBoundaries(f) ==
    LET n == Cardinality(BoundaryIndexes(f))
    IN  [i \in 1..n |->
            IsoFormat(PlusMonths(f.start_date, (n - i) * GapMonths(f)))]

\* C10: for a facet with start before end, a gap of g >= 1 months or years
\* and a day every month has, the method ends with the boundaries
\* start + k gaps (k = 0, 1, ...) that are before end, the latest first.
C10_MonthYearBoundaries ==
    (/\ fpc \in {"done", "error"}
     /\ facet_params.gap_by \in {"month", "year"}
     /\ facet_params.gap_amount >= 1
     /\ DateLess(facet_params.start_date, facet_params.end_date)
     /\ facet_params.start_date.day <= 28)
        => /\ fpc = "done"
           /\ [i \in 1..Len(facet_list) |-> facet_list[i][1]]
                  = ExpectedBoundaries(facet_params)

\* The boundaries are those for gaps of years and for gaps of one month.
BoundariesOfPlainGaps ==
    (/\ fpc \in {"done", "error"}
     /\ \/ facet_params.gap_by = "year"
        \/ facet_params.gap_by = "month" /\ facet_params.gap_amount = 1
     /\ DateLess(facet_params.start_date, facet_params.end_date)
     /\ facet_params.start_date.day <= 28)
        => /\ fpc = "done"
           /\ [i \in 1..Len(facet_list) |-> facet_list[i][1]]
                  = ExpectedBoundaries(facet_params)

(***************************************************************************)
(* The codec applied to pairs of values: the inputs are drawn in Init, the *)
(* one action encodes both.                                                *)
(***************************************************************************)

SampleLimbs == {0, 5, 9, 10, 999999}

\* Integers around 0, 10^6 and 10^12, of both signs.
SampleInts ==
    { IntV(neg, hi, lo) : neg \in BOOLEAN, hi \in {0, 1, 999999, Limb},
                          lo \in SampleLimbs }
        \ { IntV(TRUE, 0, 0) }

SampleBools == { BoolV(b) : b \in BOOLEAN }

SampleYears == {999, 2009}
SampleMonths == {1, 12}
SampleDays == {1, 28}
SampleHours == {0, 23}
SampleMinutes == {0}
SampleSeconds == {0, 59}
SampleMicros == {0, 5, 10, 999999}

SampleDates ==
    { DateV(y, m, d) : y \in SampleYears, m \in SampleMonths, d \in SampleDays }

SampleDateTimes ==
    { DateTimeV(y, m, d, t[1], t[2], t[3], t[4]) :
        y \in SampleYears, m \in SampleMonths, d \in SampleDays,
        t \in SampleHours \X SampleMinutes \X SampleSeconds \X SampleMicros }

\* The pairs the codec is run on: two values of one declared type.
SamplePairs ==
    (SampleInts \X SampleInts) \cup (SampleBools \X SampleBools)
        \cup ((SampleDates \cup SampleDateTimes)
                \X (SampleDates \cup SampleDateTimes))

InitCodec ==
    /\ \E p \in SamplePairs : va = p[1] /\ vb = p[2]
    /\ ea = NotEncoded
    /\ eb = NotEncoded
    /\ cpc = "init"
    /\ InitIndex
    /\ IdleCompiler
    /\ IdleFacets

\* document.add_value(column, _marshal_value(value)) for both values.
MarshalValues ==
    /\ cpc = "init"
    /\ ea' = _marshal_value(va)
    /\ eb' = _marshal_value(vb)
    /\ cpc' = "done"
    /\ UNCHANGED <<va, vb, indexVars, backendVars, handleVars, compilerVars,
                   facetVars, last>>

NextCodec == MarshalValues

SpecCodec == InitCodec /\ [][NextCodec]_vars

(***************************************************************************)
(* Sort-key encoding of integers and booleans.                             *)
(***************************************************************************)

\* The natural number a digit string spells (at most six digits).
RECURSIVE NatOfDigits(_)
NatOfDigits(s) ==
    IF s = <<>> THEN 0
    ELSE 10 * NatOfDigits(SubSeq(s, 1, Len(s) - 1)) + DigitValue(s[Len(s)])

AllDigits(s) == \A i \in 1..Len(s) : IsDigitChar(s[i])

\* 0 <= n <= 10^12 - 1
InTwelveDigitRange(v) == v.k = "int" /\ ~v.neg /\ v.hi < Limb

\* s is the 12-character zero-padded decimal string of v.
IsTwelveDigitStringOf(s, v) ==
    /\ Len(s) = 12
    /\ AllDigits(s)
    /\ NatOfDigits(SubSeq(s, 1, 6)) = v.hi
    /\ NatOfDigits(SubSeq(s, 7, 12)) = v.lo

IsDateType(v) == v.k \in {"date", "datetime"}

\* The instant of a date or date-time; a date is midnight of its day.
Instant(v) ==
    IF v.k = "date" THEN <<v.year, v.month, v.day, 0, 0, 0, 0>>
    ELSE <<v.year, v.month, v.day, v.hour, v.minute, v.second, v.microsecond>>

RECURSIVE TupleLess(_, _)
TupleLess(s, t) ==
    IF s = <<>> \/ t = <<>> THEN FALSE
    ELSE IF s[1] # t[1] THEN s[1] < t[1]
    ELSE TupleLess(Tail(s), Tail(t))

ChronoLess(a, b) == TupleLess(Instant(a), Instant(b))

\* C9: for two values of the date type (dates or date-times, with or
\* without microseconds) the sort key of a is less than the sort key of b,
\* as strings, if and only if a is chronologically before b.
C9_DateSortKeyOrder ==
    (cpc = "done" /\ IsDateType(va) /\ IsDateType(vb)) =>
        (StrLess(ea, eb) <=> ChronoLess(va, vb))

\* A 20-digit key (microseconds) has been compared with a later 14-digit key.
C9_Witness ==
    /\ cpc = "done"
    /\ va.k = "datetime" /\ vb.k = "datetime"
    /\ va.microsecond # 0 /\ vb.microsecond = 0
    /\ Len(ea) = 20 /\ Len(eb) = 14
    /\ ChronoLess(va, vb)
    /\ StrLess(ea, eb)

(***************************************************************************)
(* Properties of the tally of the date facets.                             *)
(***************************************************************************)

\* The instant a boundary of the list stands for: the fields of its
\* string, those it has not being 0.
BoundaryInstant(s) ==
    LET field(i, j) == IF Len(s) >= j THEN ToInt(SubSeq(s, i, j)) ELSE 0
    IN  <<field(1, 4), field(6, 7), field(9, 10), field(12, 13),
          field(15, 16), field(18, 19), field(21, 26)>>

\* The entries whose boundary the date is strictly after.
BucketsBelow(list, result_date) ==
    { i \in 1..Len(list) :
        TupleLess(BoundaryInstant(list[i][1]), Instant(result_date)) }

\* The list with the date tallied: the entry of the greatest boundary the
\* date is strictly after is one more, and no entry is when there is none.
Bucketed(list, result_date) ==
    IF result_date = None \/ BucketsBelow(list, result_date) = {} THEN list
    ELSE LET below == BucketsBelow(list, result_date)
             top == CHOOSE i \in below : \A j \in below :
                        ~TupleLess(BoundaryInstant(list[i][1]),
                                   BoundaryInstant(list[j][1]))
         IN  [list EXCEPT ![top] = <<list[top][1], list[top][2] + 1>>]

RECURSIVE SumCounts(_)
SumCounts(list) ==
    IF list = <<>> THEN 0 ELSE Head(list)[2] + SumCounts(Tail(list))

C19_BoundaryIncreases ==
    (fpc = "loop" /\ facet_list # <<>>)
        => TupleLess(BoundaryInstant(facet_list[Len(facet_list)][1]),
                     Instant(date_range))

\* The boundary increases for the gap types of the code with a gap of
\* one or more, hours, minutes and seconds being added to a date-time.
BoundaryIncreasesForGaps ==
    (/\ fpc = "loop" /\ facet_list # <<>>
     /\ facet_params.gap_amount >= 1
     /\ \/ facet_params.gap_by \in {"year", "month", "day"}
        \/ /\ facet_params.gap_by \in {"hour", "minute", "second"}
           /\ facet_params.start_date.k = "datetime")
        => TupleLess(BoundaryInstant(facet_list[Len(facet_list)][1]),
                     Instant(date_range))

(***************************************************************************)
(* The backend with a site whose fields change, an engine that may fail    *)
(* and the write lock of the database.  A writable handle is never closed  *)
(* by the code: it lives as long as something refers to it, and holds the  *)
(* write lock of the database while it lives.                              *)
(***************************************************************************)

\* _value_column(field) on a schema: the column of the first entry of the
\* name, 0 when there is none.
RECURSIVE _value_column(_, _)
_value_column(sch, field) ==
    IF sch = <<>> THEN 0
    ELSE IF Head(sch).field_name = field THEN Head(sch).column
    ELSE _value_column(Tail(sch), field)

\* The fields a site may have registered: those of the start, and the
\* same without the slug and with name before views.
SampleSites ==
    { SiteFields,
      << Field(FText, "CharField", TRUE, TRUE),
         Field(FName, "CharField", FALSE, TRUE),
         Field(FViews, "IntegerField", FALSE, TRUE) >> }

\* The instances the calls are made with.
BackendObjs ==
    { Obj(BlogApp, PostModel, 1, DataLong),
      Obj(BlogApp, PostModel, 2, DataShort),
      Obj(BlogApp, PostModel, 2, DataBroken) }

BackendBatches ==
    { b \in SeqsUpTo(BackendObjs, MaxBatch) :
        \A i, j \in 1..Len(b) : i # j => b[i].pk # b[j].pk }

\* The fields registered with the site change.
Register(fields) ==
    /\ site' = fields
    /\ site' # site
    /\ last' = [op |-> "register"]
    /\ UNCHANGED <<indexVars, schema, content_field_name, write_lock>>

\* _database(writable=True) while a writable handle lives: the schema is
\* built and assigned, then xapian.WritableDatabase raises
\* DatabaseLockError, which leaves the call.
LockedOpen(op) ==
    /\ write_lock = "held"
    /\ content_field_name' = build_schema(site)[1]
    /\ schema' = build_schema(site)[2]
    /\ last' = [op |-> op, error |-> "DatabaseLockError"]
    /\ UNCHANGED <<indexVars, site, write_lock>>

\* The handle of a call an engine error has left: the traceback refers to
\* the frame of the call and the frame to the handle, so the handle lives
\* until the traceback is dropped.
HandleAfterError == write_lock' \in {"free", "held"}

\* update(index, iterable) whose k-th replace_document raises an error of
\* the engine: the error leaves update.
UpdateFails(iterable, k) ==
    LET sch == build_schema(site)[2]
        db == UpdateLoop([docs |-> docs, last |-> lastdocid], sch,
                         SubSeq(iterable, 1, k - 1))
    IN  /\ write_lock = "free"
        /\ k \in 1..Written(sch, iterable)
        /\ db.last <= MaxDocId
        /\ OpenWritable
        /\ docs' = db.docs
        /\ lastdocid' = db.last
        /\ last' = [op |-> "update", error |-> "DatabaseError",
                    iterable |-> iterable]
        /\ HandleAfterError

\* update(index, iterable): the handle is a local of the call, and nothing
\* refers to it once the call has returned.
UpdateCall(iterable) ==
    \/ LockedOpen("update")
    \/ /\ write_lock = "free"
       /\ UpdateIndex(iterable)
       /\ last' = [op |-> "update", iterable |-> iterable]
       /\ write_lock' = "free"
    \/ \E k \in 1..Len(iterable) : UpdateFails(iterable, k)

\* remove(obj), whose delete_document may raise an error of the engine.
RemoveCall(obj) ==
    \/ LockedOpen("remove")
    \/ write_lock = "free" /\ Remove(obj) /\ write_lock' = "free"
    \/ /\ write_lock = "free"
       /\ OpenWritable
       /\ last' = [op |-> "remove", error |-> "DatabaseError"]
       /\ HandleAfterError
       /\ UNCHANGED <<docs, lastdocid>>

\* clear(models), whose first delete_document may raise an error of the
\* engine.
ClearCall(models) ==
    \/ LockedOpen("clear")
    \/ write_lock = "free" /\ Clear(models) /\ write_lock' = "free"
    \/ /\ write_lock = "free"
       /\ models # <<>> \/ docs # <<>>
       /\ OpenWritable
       /\ last' = [op |-> "clear", error |-> "DatabaseError"]
       /\ HandleAfterError
       /\ UNCHANGED <<docs, lastdocid>>

\* _database(): xapian.Database raises when there is no database.
DatabaseCall ==
    /\ IF meta.exists
       THEN OpenReadOnly /\ last' = [op |-> "_database"]
       ELSE /\ last' = [op |-> "_database",
                        error |-> "DatabaseOpeningError"]
            /\ UNCHANGED <<meta, backendVars>>
    /\ UNCHANGED <<docs, lastdocid, write_lock>>

\* The traceback that refers to a handle is dropped: the handle is freed
\* and with it the write lock.
DropTraceback ==
    /\ write_lock = "held"
    /\ write_lock' = "free"
    /\ last' = [op |-> "collect"]
    /\ UNCHANGED <<indexVars, backendVars>>

InitBackend == Init

NextBackend ==
    \/ \E fields \in SampleSites :
          Register(fields) /\ UNCHANGED <<codecVars, compilerVars, facetVars>>
    \/ \E b \in BackendBatches :
          UpdateCall(b) /\ UNCHANGED <<codecVars, compilerVars, facetVars>>
    \/ \E obj \in BackendObjs :
          RemoveCall(obj) /\ UNCHANGED <<codecVars, compilerVars, facetVars>>
    \/ \E ms \in {<<>>, <<Model(BlogApp, PostModel)>>} :
          ClearCall(ms) /\ UNCHANGED <<codecVars, compilerVars, facetVars>>
    \/ DatabaseCall /\ UNCHANGED <<codecVars, compilerVars, facetVars>>
    \/ DropTraceback /\ UNCHANGED <<codecVars, compilerVars, facetVars>>

SpecBackend == InitBackend /\ [][NextBackend]_vars

(***************************************************************************)
(* build_schema applied to lists of fields: the fields are drawn in Init,  *)
(* the one action builds the schema of them.                               *)
(***************************************************************************)

MaxFields == 3

FTags == <<"t", "a", "g", "s">>
FPub == <<"p", "u", "b">>

\* Fields of the classes of the code, two of them not indexed.
SampleFields ==
    { Field(FSlug, "CharField", FALSE, FALSE),
      Field(FText, "CharField", TRUE, TRUE),
      Field(FViews, "IntegerField", FALSE, TRUE),
      Field(FTags, "MultiValueField", FALSE, TRUE),
      Field(FPub, "DateField", FALSE, FALSE) }

\* The lists fields.items() may yield: each name is the key of one field.
SampleFieldLists ==
    { fields \in SeqsUpTo(SampleFields, MaxFields) :
        \A i, j \in 1..Len(fields) : i # j => fields[i] # fields[j] }

InitSchema ==
    /\ docs = <<>>
    /\ lastdocid = 0
    /\ meta = NoDatabase
    /\ schema = Unset
    /\ content_field_name = Unset
    /\ site \in SampleFieldLists
    /\ write_lock = "free"
    /\ last = [op |-> "init"]
    /\ IdleCodec
    /\ IdleCompiler
    /\ IdleFacets

\* build_schema(fields)
BuildSchema ==
    /\ last.op = "init"
    /\ content_field_name' = build_schema(site)[1]
    /\ schema' = build_schema(site)[2]
    /\ last' = [op |-> "build_schema"]
    /\ UNCHANGED <<codecVars, indexVars, site, handleVars, compilerVars,
                   facetVars>>

NextSchema == BuildSchema

SpecSchema == InitSchema /\ [][NextSchema]_vars

(***************************************************************************)
(* Properties of the schema.                                               *)
(***************************************************************************)

\* The last call was one that opens the database for writing.
WritableCall == last.op \in {"update", "remove", "clear"}

\* The last call has ended with an error.
CallFailed == "error" \in DOMAIN last

\* The last call has opened the database and has the schema from it.
Opened ==
    \/ WritableCall /\ (CallFailed => last.error # "DatabaseLockError")
    \/ last.op = "_database" /\ ~CallFailed

IsIndexed(f) == f.indexed

SlotsHoldSortKeys(sch, doc) ==
    LET data == Unpickle(doc.data)[4]
    IN  \A i \in 1..Len(sch) :
          LET f == sch[i].field_name
              column == _value_column(sch, f)
          IN  f \in DOMAIN data =>
                /\ column \in DOMAIN doc.values
                /\ doc.values[column] = _marshal_value(data[f])

\* C13: after every open of the database, whatever the fields of the site
\* have been, every stored document holds at the column of each field of
\* the schema that its prepared data has the sort key of its value.
C13_StableSlots ==
    Opened => \A id \in DOMAIN docs : SlotsHoldSortKeys(schema, docs[id])

C15_HandleReleased == WritableCall => write_lock = "free"

\* The handle is released by every call that returns, the calls whose
\* UnicodeDecodeError is swallowed among them.
HandleReleasedOnReturn ==
    (WritableCall /\ ~CallFailed) => write_lock = "free"

(***************************************************************************)
(* Properties of update on a record that cannot be decoded.                *)
(***************************************************************************)

\* The record has a text that cannot be decoded.
IsBroken(obj) == \E f \in DOMAIN obj.data : obj.data[f] = Undecodable

\* The place of the first record of the batch that cannot be decoded, one
\* past the batch when there is none.
FirstBroken(iterable) ==
    IF \E i \in 1..Len(iterable) : IsBroken(iterable[i])
    THEN CHOOSE i \in 1..Len(iterable) :
            /\ IsBroken(iterable[i])
            /\ \A j \in 1..(i - 1) : ~IsBroken(iterable[j])
    ELSE Len(iterable) + 1

\* The documents of the index for a record, by docid.
DocsOf(index, obj) ==
    [id \in { i \in DOMAIN index : DocumentId(obj) \in DOMAIN index[i].terms }
        |-> index[id]]

\* C17: an update that returns has written one document for each record
\* before the first that cannot be decoded, and has left the documents of
\* that record and of every record after it as they were: the rest of the
\* batch is abandoned, and the error does not leave update.
C17_DecodeErrorAbandonsRest ==
    [][(last'.op = "update" /\ "error" \notin DOMAIN last')
        => LET iterable == last'.iterable
               k == FirstBroken(iterable)
           IN  /\ \A i \in 1..(k - 1) :
                     \E id \in DOMAIN docs' :
                        /\ DOMAIN DocsOf(docs', iterable[i]) = {id}
                        /\ docs'[id].data
                              = Pickle(<<iterable[i].app_label,
                                         iterable[i].module_name,
                                         iterable[i].pk, iterable[i].data>>)
               /\ \A i \in k..Len(iterable) :
                     DocsOf(docs', iterable[i]) = DocsOf(docs, iterable[i])
       ]_vars

\* An update has returned whose first record cannot be decoded and whose
\* second can: no document has been written for the second.
C17_Witness ==
    /\ last.op = "update" /\ ~CallFailed
    /\ Len(last.iterable) = 2
    /\ IsBroken(last.iterable[1])
    /\ ~IsBroken(last.iterable[2])
    /\ DOMAIN DocsOf(docs, last.iterable[2]) = {}

(***************************************************************************)
(* more_like_this, beside search, on indexes of one to four documents:    *)
(* the index is drawn in Init, and one call is made on it.                 *)
(***************************************************************************)

\* XHExpandDecider()(term)
XHExpandDecider(term) == ~StartsWith(term, DOCUMENT_CT_TERM_PREFIX)

\* The terms enquire.get_eset(maxitems, rset, decider) chooses from: the
\* terms of the documents of rset that the decider accepts, the terms of
\* the query apart.
ExpandTerms(index, rset, query) ==
    { t \in UNION { DOMAIN index[id].terms : id \in rset } :
        XHExpandDecider(t) /\ t \notin TermSet(query) }

\* The sets of terms get_eset may return: the engine weighs the terms it
\* chooses from and returns the best; which they are is left open between
\* all of them, any one of them and none.
ESets(terms) == {terms, {}} \cup { {t} : t \in terms }

\* A set of terms as a list.
RECURSIVE TermList(_)
TermList(terms) ==
    IF terms = {} THEN <<>>
    ELSE LET t == CHOOSE x \in terms :
                    \A y \in terms \ {x} : StrLess(x, y)
         IN  <<t>> \o TermList(terms \ {t})

ExcludeSeed_Keep(query, id_term) == query

\* xapian.Query(OP_AND_NOT, [query, id_term])
ExcludeSeed(query, id_term) == AndNotQuery(query, TermQuery(id_term))

\* No additional_query_string.
NoString == <<>>

\* What more_like_this leaves in `last`.
SimilarReturn(seed, additional, s, e, outcome, query, found, hits) ==
    [op |-> "more_like_this", seed |-> seed, additional |-> additional,
     start_offset |-> s, end_offset |-> e, outcome |-> outcome,
     query |-> query, results |-> found, hits |-> hits]

\* The end of more_like_this on the query it has built.
SimilarMatches(model_instance, additional, start_offset, end_offset, query) ==
    last' = SimilarReturn(model_instance, additional, start_offset,
                          end_offset, "returned", query,
                          SearchResults(docs,
                              GetMSet(query, docs, start_offset,
                                      EndOffset(docs, end_offset))),
                          MatchesEstimated(query, docs))

\* more_like_this from the query of the expansion terms without the seed.
\* self._query, which takes the additional query string, is defined
\* nowhere in the source: the call raises AttributeError, or, should the
\* class the backend extends have the method, returns a query.
Similar(model_instance, additional, start_offset, end_offset, query) ==
    IF additional = NoString
    THEN SimilarMatches(model_instance, additional, start_offset, end_offset,
                        query)
    ELSE \/ last' = SimilarReturn(model_instance, additional, start_offset,
                                  end_offset, "raised", query, <<>>, 0)
         \/ SimilarMatches(model_instance, additional, start_offset,
                           end_offset,
                           Query("AND", <<query, TermQuery(additional)>>))

\* more_like_this(model_instance, additional_query_string, start_offset,
\* end_offset); an end_offset of 0 stands for None.
more_like_this(model_instance, additional, start_offset, end_offset) ==
    IF ~meta.exists
    THEN \* xapian.Database(path) raises: there is no database
         /\ last' = SimilarReturn(model_instance, additional, start_offset,
                                  end_offset, "raised", EmptyQuery, <<>>, 0)
         /\ UNCHANGED <<indexVars, backendVars>>
    ELSE LET id_term == DocumentId(model_instance)
             rset == { id \in DOMAIN docs :
                         \E i \in 1..Len(GetMSet(TermQuery(id_term), docs, 0,
                                                  EndOffset(docs, end_offset))) :
                            GetMSet(TermQuery(id_term), docs, 0,
                                    EndOffset(docs, end_offset))[i] = id }
         IN  /\ OpenReadOnly
             /\ UNCHANGED <<docs, lastdocid>>
             /\ IF rset = {}
                THEN \* no match: the name `match` is not bound after the loop
                     last' = SimilarReturn(model_instance, additional,
                                           start_offset, end_offset, "raised",
                                           EmptyQuery, <<>>, 0)
                ELSE \E eset \in ESets(ExpandTerms(docs, rset,
                                                    TermQuery(id_term))) :
                        Similar(model_instance, additional, start_offset,
                                end_offset,
                                ExcludeSeed(TermListQuery("OR", TermList(eset)),
                                            id_term))

\* The indexes: none, the seed alone, and four documents with a word in
\* common.
SimilarIndexes ==
    { NoIndex,
      [exists |-> TRUE] @@
          UpdateLoop([docs |-> <<>>, last |-> 0], build_schema(SiteFields)[2],
                     << Obj(BlogApp, PostModel, 1, DataLong) >>),
      [exists |-> TRUE] @@
          UpdateLoop([docs |-> <<>>, last |-> 0], build_schema(SiteFields)[2],
                     << Obj(BlogApp, PostModel, 1, DataLong),
                        Obj(BlogApp, PostModel, 2, DataShort),
                        Obj(BlogApp, PostModel, 3, DataShort),
                        Obj(CoreApp, UserModel, 1, DataLong) >>) }

\* The seeds: two records of the larger index, and one of no index.
SampleSeeds ==
    { Obj(BlogApp, PostModel, 1, DataLong),
      Obj(BlogApp, PostModel, 2, DataShort),
      Obj(CoreApp, UserModel, 2, DataShort) }

SampleStrings == { NoString, <<"f", "o", "o", "s">> }

SampleWindowEnds == {0, 1, 2, 3}

\* The queries search is called with: a word, the word within the posts,
\* and the word within the posts with a boost for another word.
SimilarSearchQueries ==
    { SearchQueryOf(Node("AND", FALSE, <<ContentDa>>), ms, b) :
        ms \in {<<>>, <<Model(BlogApp, PostModel)>>},
        b \in {<<>>, << <<<<"f", "o", "o", "s">>, 2>> >>} }

InitSimilar ==
    /\ \E ix \in SimilarIndexes :
          /\ docs = ix.docs
          /\ lastdocid = ix.last
          /\ meta = IF ix.exists
                    THEN [exists |-> TRUE,
                          schema |-> Pickle(build_schema(SiteFields)[2]),
                          content |-> Pickle(build_schema(SiteFields)[1])]
                    ELSE NoDatabase
    /\ schema = Unset
    /\ content_field_name = Unset
    /\ site = SiteFields
    /\ write_lock = "free"
    /\ last = [op |-> "init"]
    /\ IdleCodec
    /\ IdleCompiler
    /\ IdleFacets

NextSimilar ==
    \/ \E obj \in SampleSeeds, a \in SampleStrings, s \in SampleStarts,
          e \in SampleWindowEnds :
          /\ last.op = "init"
          /\ more_like_this(obj, a, s, e)
          /\ UNCHANGED <<codecVars, handleVars, compilerVars, facetVars>>
    \/ \E sq \in SimilarSearchQueries, s \in SampleStarts,
          e \in SampleWindowEnds :
          /\ last.op = "init"
          /\ Search(sq, s, e)
          /\ UNCHANGED <<codecVars, handleVars, compilerVars, facetVars>>

SpecSimilar == InitSimilar /\ [][NextSimilar]_vars

(***************************************************************************)
(* Properties of more_like_this.                                           *)
(***************************************************************************)

\* The last call is a more_like_this that has returned for a seed whose
\* document is in the index.
SimilarReturned ==
    /\ last.op = "more_like_this"
    /\ last.outcome = "returned"
    /\ DocsWithTerm(docs, DocumentId(last.seed)) # {}

\* The result is that of the record.
IsResultOf(result, obj) ==
    /\ result[1] = obj.app_label
    /\ result[2] = obj.module_name
    /\ result[3] = obj.pk

\* C16: the results of more_like_this for a seed in the index do not
\* contain the seed, whatever the window and the additional query string
\* are, and there are no hits on an index of the seed alone; without an
\* additional query string the call returns.
C16_SeedExcluded ==
    /\ SimilarReturned =>
          /\ \A i \in 1..Len(last.results) :
                ~IsResultOf(last.results[i], last.seed)
          /\ DOMAIN docs = DocsWithTerm(docs, DocumentId(last.seed))
                => last.hits = 0
    /\ (/\ last.op = "more_like_this"
        /\ last.additional = NoString
        /\ DocsWithTerm(docs, DocumentId(last.seed)) # {})
          => last.outcome = "returned"

\* more_like_this has returned other records for a seed in an index of
\* several documents that have terms of the seed.
C16_Witness ==
    /\ SimilarReturned
    /\ Len(last.results) >= 2
    /\ \E id \in DocsWithTerm(docs, DocumentId(last.seed)) :
          \A t \in TermSet(last.query) \ {DocumentId(last.seed)} :
              HasTerm(docs[id], t)

\* The query of the last call.
LastQuery == IF last.op = "search" THEN build_query(last.sq) ELSE last.query

\* The matches ranked s .. e-1, and s .. doccount-1 without end_offset.
Window(ranked, start_offset, end_offset) ==
    SubSeq(ranked, start_offset + 1,
           IF end_offset = 0 THEN Len(ranked)
           ELSE Min0(Len(ranked), end_offset))

\* The last call has returned results for a window with start_offset
\* before end_offset, or without end_offset.
WindowReturned ==
    /\ last.op \in {"search", "more_like_this"}
    /\ last.outcome = "returned"
    /\ meta.exists
    /\ last.end_offset = 0 \/ last.end_offset > last.start_offset

\* C18: search and more_like_this return the matches of their query
\* ranked start_offset .. end_offset - 1, which are end_offset -
\* start_offset at most, and those ranked from start_offset on without
\* end_offset.
C18_SameWindow ==
    WindowReturned =>
        last.results
            = SearchResults(docs,
                  Window(Ascending(MatchSet(LastQuery, docs)),
                         last.start_offset, last.end_offset))

\* search returns the matches of that window.
WindowOfSearch == last.op = "search" => C18_SameWindow

(***************************************************************************)
(* Properties of the restriction to models.                                *)
(***************************************************************************)

\* The document carries the type-marker term of one of the models.
IsOfModels(doc, models) ==
    \E i \in 1..Len(models) : HasTerm(doc, ContentTypeTerm(models[i]))

\* The last call is a search for a query restricted to models.
RestrictedSearch ==
    /\ last.op = "search"
    /\ last.outcome = "returned"
    /\ last.sq.models # <<>>

\* C20: every document that matches the query build_query returns for a
\* SearchQuery with models carries the type-marker term of one of the
\* models, with boost terms or without, and the boost terms add no
\* document to the matches.
C20_ModelRestriction ==
    RestrictedSearch =>
        /\ \A id \in MatchSet(build_query(last.sq), docs) :
              IsOfModels(docs[id], last.sq.models)
        /\ MatchSet(build_query(last.sq), docs)
              = MatchSet(build_query([last.sq EXCEPT !.boost = <<>>]), docs)

\* The matches are of the models when there are no boost terms.
ModelRestrictionWithoutBoost ==
    (RestrictedSearch /\ last.sq.boost = <<>>) =>
        \A id \in MatchSet(build_query(last.sq), docs) :
            IsOfModels(docs[id], last.sq.models)

====
